---------------------------- MODULE Spec2Model ----------------------------
(***************************************************************************)
(* A model of explain-rag: the chunk store and its similarity search       *)
(* (supabase migration), and the query page of the frontend (QueryInput,   *)
(* Home, AnswerDisplay, ChunksPanel).                                      *)
(***************************************************************************)
EXTENDS Integers, Sequences, FiniteSets, TLC

VARIABLES
    papers,        \* papers table: the set of paper ids (primary keys)
    chunks,        \* chunks table: a set of rows [id, paper_id, chunk_index, embedding]
    lastSearch,    \* the last execution of search_similar_chunks: its arguments and rows
    repeatRows,    \* the rows of a second execution with the same arguments, same table
    lastOp,        \* the statement executed last
    question,            \* QueryInput: the text of the question field
    topK,                \* QueryInput: the value of the Top K slider
    enableReranking,     \* QueryInput: the reranking switch
    controlsTouched,     \* whether the slider or the switch was ever operated
    prefilledQuestion,   \* Home: the question prefilled by "Ask about this paper"
    mutStatus,           \* queryMutation: "idle", "pending", "success" or "error"
    mutVars,             \* queryMutation.variables: what mutate was last called with
    mutateCount,         \* the number of calls of queryMutation.mutate so far
    inflight,            \* the query requests sent and not yet answered
    response,            \* Home: the stored response
    highlightedChunkId,  \* Home: the highlighted chunk
    lastClick,           \* the marker number of the citation badge clicked last
    rankIn,              \* getRankChangeDisplay: the arguments of a call
    rankOut,             \* getRankChangeDisplay: what the call returned
    viewIn,              \* a component or function without state: its props or arguments
    viewOut,             \* what it rendered or returned
    srvSnapshot,         \* server: computed_at of the published Atlas snapshot
    srvJob,              \* server: the recompute request being processed, if any
    recStatus,           \* per RecomputeButton: the status of its mutation
    recResult,           \* per RecomputeButton: its result state
    recError,            \* per RecomputeButton: the error of its mutation
    recInflight,         \* the recompute requests sent and not yet answered to the client
    recCount,            \* the number of recompute requests sent so far
    qData,               \* per read query of the atlas page: the data it holds
    qFetch,              \* per read query of the atlas page: its fetch in flight
    rawPapers,           \* PapersPanel: cluster_id of each paper of the embeddings response
    rawClusters,         \* PapersPanel: the ids of the clusters response, in order
    expandedClusters,    \* PapersPanel: the set of expanded sections
    prevClusterKey,      \* PapersPanel: the cluster key of the previous render
    panelOp,             \* PapersPanel: what happened last
    evOpen,              \* EvaluateButton: the dialog is open
    evResult,            \* EvaluateButton: its result state
    evStatus,            \* EvaluateButton: the status of its mutation
    evError,             \* EvaluateButton: the error of its mutation
    evInflight,          \* EvaluateButton: how far the request in flight has come
    evCount,             \* the number of evaluation requests sent so far
    authUser,            \* useAuth: user
    authLoading,         \* useAuth: isLoading
    authNav,             \* the route of the last router.push or router.replace
    authReqs,            \* the auth requests sent and not yet answered
    authCount,           \* the number of auth operations started so far
    authLatest,          \* the operation started last, and user as it left it
    authEvent,           \* what happened last to the hook
    authLayout,          \* the version of AdminLayout that is mounted
    askCount,            \* the number of clicks on "Ask about this paper" so far
    askedTitle           \* the title of the paper whose button was clicked last

dbVars == <<papers, chunks, lastSearch, repeatRows, lastOp>>

inputVars == <<question, topK, enableReranking, controlsTouched, prefilledQuestion>>

pageVars == <<mutStatus, mutVars, mutateCount, inflight, response,
              highlightedChunkId, lastClick>>

rankVars == <<rankIn, rankOut>>

viewVars == <<viewIn, viewOut>>

atlasVars == <<srvSnapshot, srvJob, recStatus, recResult, recError, recInflight,
               recCount, qData, qFetch>>

\* What the query page and the chunk store leave alone.
panelVars == <<rawPapers, rawClusters, expandedClusters, prevClusterKey, panelOp>>

evalVars == <<evOpen, evResult, evStatus, evError, evInflight, evCount>>

authVars == <<authUser, authLoading, authNav, authReqs, authCount, authLatest, authEvent,
              authLayout>>

askVars == <<askCount, askedTitle>>

sideVars == <<rankVars, viewVars, atlasVars, panelVars, evalVars, authVars, askVars>>

uiVars == <<inputVars, pageVars, sideVars>>

vars == <<dbVars, uiVars>>

\* An absent value (SQL NULL, JavaScript null or undefined) is the empty
\* sequence, a present value x the one-element sequence <<x>>.
None == <<>>

Some(x) == <<x>>

Val(o) == o[1]

\* A NULL embedding: the vector of no components.
NullEmbedding == <<>>

(***************************************************************************)
(* The chunk store: initial_schema.sql                                     *)
(***************************************************************************)

\* Bounds of the model.
MaxChunks == 2

PaperIds == {"p1", "p2"}
ChunkIds == 1..MaxChunks
ChunkIndexes == {0, 1}

\* match_count: from 1 to more than the table can hold.
MatchCounts == 1..(MaxChunks + 1)

\* filter_paper_ids: NULL, the empty array, one paper.
Filters == {None, Some({}), Some({"p1"})}

\* vector(384) is modelled by integer vectors of one common length, so that
\* every cosine is an exact multiple of 1/SimScale.
Embeddings == {<<5, 0>>, <<-5, 0>>}
QueryEmbeddings == {<<3, 4>>}
SimScale == 5 * 5

Dot(a, b) == a[1] * b[1] + a[2] * b[2]

\* a <=> b, pgvector's cosine distance 1 - cos(a, b), in units of 1/SimScale.
CosineDistance(a, b) == SimScale - Dot(a, b)

\* The distance returned in the place of the similarity.
SimilarityAsDistance(a, b) == CosineDistance(a, b)

\* (1 - (c.embedding <=> query_embedding))::REAL, in units of 1/SimScale.
Similarity(a, b) == SimScale - CosineDistance(a, b)

\* UNIQUE(paper_id, chunk_index), PRIMARY KEY (id), REFERENCES papers(id).
ChunkInsertAllowed(row) ==
    /\ row.paper_id \in papers
    /\ \A c \in chunks : c.id # row.id
    /\ \A c \in chunks : ~(c.paper_id = row.paper_id /\ c.chunk_index = row.chunk_index)

\* A delete that leaves the chunks of the deleted paper behind.
CascadeDeleteNothing(cs, p) == cs

\* ON DELETE CASCADE: the rows of chunks that survive the delete of paper p.
CascadeDelete(cs, p) == {c \in cs : c.paper_id # p}

\* WHERE c.embedding IS NOT NULL AND (filter_paper_ids IS NULL OR c.paper_id = ANY(...)),
\* over chunks JOIN papers.
Eligible(filter) ==
    {c \in chunks :
        /\ c.paper_id \in papers
        /\ c.embedding # NullEmbedding
        /\ (filter = None \/ c.paper_id \in Val(filter))}

Min(a, b) == IF a <= b THEN a ELSE b

\* The sequences of n distinct rows of el in the order of ORDER BY
\* c.embedding <=> query_embedding. The order of rows at equal distance is not
\* specified by ORDER BY, so each such order is a possible outcome.
OrderedRows(el, n, q) ==
    {r \in [1..n -> el] :
        /\ \A i, j \in 1..n : i # j => r[i] # r[j]
        /\ \A i, j \in 1..n : i < j =>
               CosineDistance(r[i].embedding, q) <= CosineDistance(r[j].embedding, q)}

\* ORDER BY ... LIMIT match_count evaluated exactly (sequential scan and sort):
\* the first min(match_count, |eligible|) rows of a full sort.
ExactResults(q, k, filter) ==
    LET el == Eligible(filter)
        n  == Min(k, Cardinality(el))
    IN  {r \in OrderedRows(el, n, q) :
            \A c \in el : (\A i \in 1..n : r[i] # c) =>
                \A i \in 1..n :
                    CosineDistance(r[i].embedding, q) <= CosineDistance(c.embedding, q)}

\* The same statement evaluated through idx_chunks_embedding, the HNSW index
\* "for fast approximate nearest neighbor search": the index yields some of the
\* rows in distance order, the WHERE clause filters them afterwards, LIMIT cuts.
\* Rows may be missed, so fewer than min(match_count, |eligible|) may come back.
ApproximateResults(q, k, filter) ==
    LET el == Eligible(filter)
        n  == Min(k, Cardinality(el))
    IN  UNION {OrderedRows(el, m, q) : m \in 0..n}

\* The planner picks the scan.
ScanModes == {"seq", "hnsw"}

SearchResults(scan, q, k, filter) ==
    IF scan = "seq" THEN ExactResults(q, k, filter) ELSE ApproximateResults(q, k, filter)

\* The RETURNS TABLE columns of one row.
ResultRow(c, q) ==
    [chunk_id |-> c.id, paper_id |-> c.paper_id, similarity |-> Similarity(c.embedding, q)]

DbInit ==
    /\ papers = {}
    /\ chunks = {}
    /\ lastSearch = None
    /\ repeatRows = None
    /\ lastOp = "none"

InsertPaper(p) ==
    /\ p \notin papers
    /\ papers' = papers \cup {p}
    /\ lastOp' = "insert_paper"
    /\ UNCHANGED <<chunks, uiVars>>
    /\ lastSearch' = None
    /\ repeatRows' = None

InsertChunk(id, p, idx, emb) ==
    LET row == [id |-> id, paper_id |-> p, chunk_index |-> idx, embedding |-> emb]
    IN  /\ ChunkInsertAllowed(row)
        /\ chunks' = chunks \cup {row}
        /\ lastOp' = "insert_chunk"
        /\ UNCHANGED <<papers, uiVars>>
        /\ lastSearch' = None
        /\ repeatRows' = None

DeletePaper(p) ==
    /\ p \in papers
    /\ papers' = papers \ {p}
    /\ chunks' = CascadeDelete(chunks, p)
    /\ lastOp' = "delete_paper"
    /\ UNCHANGED uiVars
    /\ lastSearch' = None
    /\ repeatRows' = None

\* One call and its repetition are observed per state of the tables: a call
\* changes no table, so a further call returns what it returns from the state
\* in which nothing has been observed yet.
Search(q, k, filter) ==
    /\ lastSearch = None
    /\ \E scan \in ScanModes : \E r \in SearchResults(scan, q, k, filter) :
          lastSearch' = Some([query |-> q, match_count |-> k, filter |-> filter,
                              scan |-> scan,
                              rows |-> [i \in DOMAIN r |-> ResultRow(r[i], q)]])
    /\ repeatRows' = None
    /\ lastOp' = "search"
    /\ UNCHANGED <<papers, chunks, uiVars>>

\* The same call again, against the unchanged table and with the same scan.
RepeatSearch ==
    /\ lastSearch # None
    /\ repeatRows = None
    /\ LET s == Val(lastSearch)
       IN  \E r \in SearchResults(s.scan, s.query, s.match_count, s.filter) :
              repeatRows' = Some([i \in DOMAIN r |-> ResultRow(r[i], s.query)])
    /\ lastOp' = "search"
    /\ UNCHANGED <<papers, chunks, lastSearch, uiVars>>

DbNext ==
    \/ \E p \in PaperIds : InsertPaper(p)
    \/ \E id \in ChunkIds, p \in PaperIds, idx \in ChunkIndexes,
          emb \in Embeddings \cup {NullEmbedding} : InsertChunk(id, p, idx, emb)
    \/ \E p \in PaperIds : DeletePaper(p)
    \/ \E q \in QueryEmbeddings, k \in MatchCounts, filter \in Filters :
          Search(q, k, filter)
    \/ RepeatSearch


(***************************************************************************)
(* The query page: QueryInput.tsx, Home (page.tsx), QueryPanel.tsx         *)
(***************************************************************************)

\* Bounds of the model.
MaxLen == 2
MaxSubmits == 3

\* Program constants: the slider's min and max, and useState(10).
SliderMin == 1
SliderMax == 50
DefaultTopK == 10

\* A string is the sequence of its characters.
Chars == {"a", " "}
Whitespace == {" "}
Strings == UNION {[1..n -> Chars] : n \in 0..MaxLen}

\* The values the slider is moved to: its ends, their neighbours, the default.
SliderValues == {v \in SliderMin..SliderMax :
                    v \in {SliderMin, SliderMin + 1, DefaultTopK, SliderMax}}

RECURSIVE TrimStart(_)
TrimStart(s) ==
    IF s = <<>> THEN s
    ELSE IF Head(s) \in Whitespace THEN TrimStart(Tail(s)) ELSE s

RECURSIVE TrimEnd(_)
TrimEnd(s) ==
    IF s = <<>> THEN s
    ELSE IF s[Len(s)] \in Whitespace THEN TrimEnd(SubSeq(s, 1, Len(s) - 1)) ELSE s

\* String.prototype.trim
Trim(s) == TrimEnd(TrimStart(s))

\* The truth value JavaScript gives a string: false for "" only.
Truthy(s) == s # <<>>

\* isLoading={queryMutation.isPending}
IsLoading == mutStatus = "pending"

\* disabled={isLoading} of the textarea, the slider and the switch.
ControlsDisabled == IsLoading

\* The button that is enabled whenever the question field holds any character.
AskDisabledUntrimmed == IsLoading \/ ~Truthy(question)

\* disabled={isLoading || !question.trim()} of the Ask button.
AskDisabled == IsLoading \/ ~Truthy(Trim(question))

\* A handleSubmit that passes the question as typed.
HandleSubmitUntrimmed(q, k, r) ==
    IF Truthy(Trim(q))
    THEN <<[question |-> q, top_k |-> k, enable_reranking |-> r]>>
    ELSE <<>>

\* QueryInput.handleSubmit: the calls of onSubmit it makes, in order.
HandleSubmitCalls(q, k, r) ==
    IF Truthy(Trim(q))
    THEN <<[question |-> Trim(q), top_k |-> k, enable_reranking |-> r]>>
    ELSE <<>>

UiInit ==
    /\ question = <<>>
    /\ topK = DefaultTopK
    /\ enableReranking = FALSE
    /\ controlsTouched = FALSE
    /\ prefilledQuestion = None
    /\ mutStatus = "idle"
    /\ mutVars = None
    /\ mutateCount = 0
    /\ inflight = {}
    /\ response = None
    /\ highlightedChunkId = None
    /\ lastClick = None

\* Textarea onChange: setQuestion(e.target.value).
SetQuestion(s) ==
    /\ ~ControlsDisabled
    /\ s # question
    /\ question' = s
    /\ UNCHANGED <<topK, enableReranking, controlsTouched, prefilledQuestion, pageVars, sideVars, dbVars>>

\* Slider onValueChange: setTopK(value).
SetTopK(v) ==
    /\ ~ControlsDisabled
    /\ v \in SliderMin..SliderMax
    /\ topK' = v
    /\ controlsTouched' = TRUE
    /\ UNCHANGED <<question, enableReranking, prefilledQuestion, pageVars, sideVars, dbVars>>

\* Switch onCheckedChange: setEnableReranking(checked).
SetEnableReranking ==
    /\ ~ControlsDisabled
    /\ enableReranking' = ~enableReranking
    /\ controlsTouched' = TRUE
    /\ UNCHANGED <<question, topK, prefilledQuestion, pageVars, sideVars, dbVars>>

\* The questions "Ask about this paper" prefills: never blank.
PrefilledQuestions == {<<"a", "a">>}

\* PapersPanel onAskAboutPaper: setPrefilledQuestion(...); the effect of QueryInput
\* runs when defaultQuestion changes and copies a non-empty one into the field.
SetPrefilledQuestion(s) ==
    /\ prefilledQuestion' = Some(s)
    /\ question' = IF prefilledQuestion # Some(s) /\ Truthy(s) THEN s ELSE question
    /\ UNCHANGED <<topK, enableReranking, controlsTouched, pageVars, dbVars>>

AskAboutPaper(s) == SetPrefilledQuestion(s) /\ UNCHANGED sideVars

MaxAsks == 2

\* The titles of the papers of the panel.
PaperTitles == {<<"T">>, <<"U">>}

AskPrefix ==
    <<"W", "h", "a", "t", " ", "i", "s", " ", "t", "h", "e", " ", "m", "a", "i", "n",
      " ", "c", "o", "n", "t", "r", "i", "b", "u", "t", "i", "o", "n", " ", "o", "f",
      " ", "\"">>
AskSuffix == <<"\"", "?">>

\* `What is the main contribution of "${paper.title}"?`
AskQuestion(title) == AskPrefix \o title \o AskSuffix

\* No click on "Ask about this paper" so far.
AskIdle ==
    /\ askCount = 0
    /\ askedTitle = None

\* A click on "Ask about this paper" of the paper with the title.
ClickAskAboutPaper(title) ==
    /\ askCount < MaxAsks
    /\ askCount' = askCount + 1
    /\ askedTitle' = Some(title)
    /\ SetPrefilledQuestion(AskQuestion(title))
    /\ UNCHANGED <<rankVars, viewVars, atlasVars, panelVars, evalVars, authVars>>

\* Home.handleSubmit: setPrefilledQuestion(undefined); queryMutation.mutate({data: query}).
\* mutate sends the request and makes the mutation pending.
HomeHandleSubmit(query) ==
    /\ mutateCount < MaxSubmits
    /\ prefilledQuestion' = None
    /\ mutateCount' = mutateCount + 1
    /\ mutVars' = Some(query)
    /\ mutStatus' = "pending"
    /\ inflight' = inflight \cup {[id |-> mutateCount + 1, data |-> query]}
    /\ UNCHANGED <<response, highlightedChunkId, lastClick>>

\* A click on the Ask button submits the form; the browser submits through an
\* enabled submit button only. The form's onSubmit is QueryInput.handleSubmit.
SubmitForm ==
    /\ ~AskDisabled
    /\ LET calls == HandleSubmitCalls(question, topK, enableReranking)
       IN  IF calls = <<>>
           THEN UNCHANGED <<prefilledQuestion, pageVars, sideVars, dbVars>>
           ELSE HomeHandleSubmit(calls[1])
    /\ UNCHANGED <<question, topK, enableReranking, controlsTouched, sideVars, dbVars>>

\* customFetch returns {data, status} for every response.ok status.
OkStatuses == {200, 201}

\* The status onSuccess stores the data of.
StoredStatus == 200

\* The mutation observer follows the mutation started last.
StatusAfter(req, status) == IF req.id = mutateCount THEN status ELSE mutStatus

\* The request is answered with an ok status: the mutation succeeds and
\* onSuccess runs: if (result.status === 200) setResponse(result.data).
QuerySucceeds(req, status, data) ==
    /\ req \in inflight
    /\ inflight' = inflight \ {req}
    /\ mutStatus' = StatusAfter(req, "success")
    /\ response' = IF status = StoredStatus
                   THEN Some([request |-> req.id, data |-> data])
                   ELSE response
    /\ UNCHANGED <<inputVars, mutVars, mutateCount, highlightedChunkId, lastClick, sideVars, dbVars>>

\* A failure that also discards the stored response.
QueryFailsClearing(req) ==
    /\ req \in inflight
    /\ inflight' = inflight \ {req}
    /\ mutStatus' = StatusAfter(req, "error")
    /\ response' = None
    /\ UNCHANGED <<inputVars, mutVars, mutateCount, highlightedChunkId, lastClick,
                   sideVars, dbVars>>

\* customFetch throws (no connection, or a status that is not ok): the mutation fails.
QueryFails(req) ==
    /\ req \in inflight
    /\ inflight' = inflight \ {req}
    /\ mutStatus' = StatusAfter(req, "error")
    /\ UNCHANGED <<inputVars, mutVars, mutateCount, response, highlightedChunkId,
                   lastClick, sideVars, dbVars>>

\* A "Try Again" that sends the failed query once more.
RetryResends ==
    /\ mutStatus = "error"
    /\ mutVars # None
    /\ mutateCount < MaxSubmits
    /\ mutateCount' = mutateCount + 1
    /\ mutStatus' = "pending"
    /\ inflight' = inflight \cup {[id |-> mutateCount + 1, data |-> Val(mutVars)]}
    /\ UNCHANGED <<inputVars, mutVars, response, highlightedChunkId, lastClick,
                   sideVars, dbVars>>

\* "Try Again" of ErrorDisplay, rendered while the mutation has an error:
\* onRetry={() => queryMutation.reset()}.
Retry ==
    /\ mutStatus = "error"
    /\ mutStatus' = "idle"
    /\ mutVars' = None
    /\ UNCHANGED <<inputVars, mutateCount, inflight, response, highlightedChunkId,
                   lastClick, sideVars, dbVars>>

\* {response && !isLoading && ...}: the answer and the chunks are rendered.
ResultsShown == response # None /\ ~IsLoading

\* {error && <ErrorDisplay ... />} with error set while queryMutation.isError.
ErrorShown == mutStatus = "error"

(***************************************************************************)
(* The answer and its citations: AnswerDisplay.tsx, ChunksPanel.tsx        *)
(***************************************************************************)

DigitChars == {"0", "1", "2", "3", "4", "5", "6", "7", "8", "9"}

DigitValue(c) ==
    CASE c = "0" -> 0 [] c = "1" -> 1 [] c = "2" -> 2 [] c = "3" -> 3 [] c = "4" -> 4
      [] c = "5" -> 5 [] c = "6" -> 6 [] c = "7" -> 7 [] c = "8" -> 8 [] c = "9" -> 9

\* parseInt(digits, 10) of a string of decimal digits.
RECURSIVE ParseInt(_)
ParseInt(digits) ==
    IF digits = <<>> THEN 0
    ELSE 10 * ParseInt(SubSeq(digits, 1, Len(digits) - 1)) + DigitValue(digits[Len(digits)])

\* The first position after i that holds no digit (Len(s) + 1 if there is none).
RECURSIVE DigitsEnd(_, _)
DigitsEnd(s, i) ==
    IF i <= Len(s) /\ s[i] \in DigitChars THEN DigitsEnd(s, i + 1) ELSE i

\* /\[\d+\]/ matched at position i of s: the position of its "]", or 0.
MarkerEnd(s, i) ==
    IF i <= Len(s) /\ s[i] = "["
    THEN LET j == DigitsEnd(s, i + 1)
         IN  IF j > i + 1 /\ j <= Len(s) /\ s[j] = "]" THEN j ELSE 0
    ELSE 0

\* answer.split(/(\[\d+\])/g): the texts between the markers and, through the
\* capturing group, the markers themselves, in order.
RECURSIVE SplitFrom(_, _, _, _)
SplitFrom(s, i, cur, parts) ==
    IF i > Len(s) THEN Append(parts, cur)
    ELSE IF MarkerEnd(s, i) > 0
         THEN SplitFrom(s, MarkerEnd(s, i) + 1, <<>>,
                        parts \o <<cur, SubSeq(s, i, MarkerEnd(s, i))>>)
         ELSE SplitFrom(s, i + 1, Append(cur, s[i]), parts)

SplitMarkers(s) == SplitFrom(s, 1, <<>>, <<>>)

\* part.match(/\[(\d+)\]/): the digits of the first marker in part, or None.
RECURSIVE MatchFrom(_, _)
MatchFrom(part, i) ==
    IF i > Len(part) THEN None
    ELSE IF MarkerEnd(part, i) > 0
         THEN Some(SubSeq(part, i + 1, MarkerEnd(part, i) - 1))
         ELSE MatchFrom(part, i + 1)

MatchMarker(part) == MatchFrom(part, 1)

\* An index that takes the marker number for the position in the array.
CitationIndexZeroBased(digits) == ParseInt(digits)

\* const citationIndex = parseInt(match[1], 10) - 1
CitationIndex(digits) == ParseInt(digits) - 1

\* citations[citationIndex]: the entry (as citations[index + 1] of the
\* sequence), or None where the array has no such index.
CitationAt(citations, index) ==
    IF index >= 0 /\ index < Len(citations) THEN Some(citations[index + 1]) ELSE None

\* renderAnswerWithCitations: one rendered part per part of the split, a Badge
\* for a marker that has its citation, a span for everything else.
RenderedParts(answer, citations) ==
    LET parts == SplitMarkers(answer)
    IN  [i \in DOMAIN parts |->
            LET match == MatchMarker(parts[i])
                cit   == IF match = None THEN None
                         ELSE CitationAt(citations, CitationIndex(Val(match)))
            IN  IF cit # None
                THEN [kind |-> "badge", text |-> parts[i], citation |-> cit]
                ELSE [kind |-> "span", text |-> parts[i], citation |-> None]]

\* A click handler that takes the last chunk of the citation.
BadgeClickTargetLast(citation) ==
    IF citation.chunk_ids # <<>> /\ Truthy(citation.chunk_ids[Len(citation.chunk_ids)])
    THEN Some(citation.chunk_ids[Len(citation.chunk_ids)])
    ELSE None

\* Badge onClick: if (onCitationClick && citation.chunk_ids[0]) the chunk id
\* onCitationClick is called with, or None when it is not called.
BadgeClickTarget(citation) ==
    IF citation.chunk_ids # <<>> /\ Truthy(citation.chunk_ids[1])
    THEN Some(citation.chunk_ids[1])
    ELSE None

\* ChunksPanel: the positions of the chunks rendered with the highlight class,
\* highlightedChunkId === chunk.chunk_id.
HighlightedRows(retrieved, highlighted) ==
    {i \in DOMAIN retrieved : highlighted # None /\ Val(highlighted) = retrieved[i].chunk_id}

\* Chunk ids are strings (UUIDs), a string the sequence of its characters.
ChunkA == <<"c", "1">>
ChunkB == <<"c", "2">>
ChunkC == <<"c", "3">>

Chunk(id) == [chunk_id |-> id]

Citation(ids) == [chunk_ids |-> ids]

\* The response bodies the server answers with: markers with their citations,
\* a marker without citation, citations without chunk, a marker [0].
ResponseBodies ==
    { [answer |-> <<"x", "[", "1", "]", "[", "2", "]">>,
       citations |-> <<Citation(<<ChunkA>>), Citation(<<ChunkB, ChunkA>>)>>,
       retrieved_chunks |-> <<Chunk(ChunkA), Chunk(ChunkB)>>],
      [answer |-> <<"[", "1", "]", "x">>,
       citations |-> <<>>,
       retrieved_chunks |-> <<Chunk(ChunkA)>>],
      [answer |-> <<"[", "0", "]", "[", "1", "]", "[", "0", "2", "]">>,
       citations |-> <<Citation(<<>>), Citation(<<ChunkC>>)>>,
       retrieved_chunks |-> <<Chunk(ChunkB), Chunk(ChunkA)>>] }

\* A click on the badge rendered as part i of the answer: Badge onClick, and
\* through it Home.handleCitationClick: setHighlightedChunkId(chunkId).
ClickCitation(i) ==
    /\ ResultsShown
    /\ LET parts == RenderedParts(Val(response).data.answer, Val(response).data.citations)
       IN  /\ i \in DOMAIN parts
           /\ parts[i].kind = "badge"
           /\ lastClick' = Some(ParseInt(Val(MatchMarker(parts[i].text))))
           /\ LET target == BadgeClickTarget(Val(parts[i].citation))
              IN  highlightedChunkId' =
                      IF target # None THEN target ELSE highlightedChunkId
    /\ UNCHANGED <<inputVars, mutStatus, mutVars, mutateCount, inflight, response,
                   sideVars, dbVars>>

\* The response bodies without citation markers to click.
PlainBodies == {d \in ResponseBodies : d.citations = <<>>}

\* The longest answer of ResponseBodies has ten characters, so at most ten parts.
PartPositions == 1..10

\* The query page with every input of QueryInput and one response body.
InputNext ==
    \/ \E s \in Strings : SetQuestion(s)
    \/ \E v \in SliderValues : SetTopK(v)
    \/ SetEnableReranking
    \/ \E s \in PrefilledQuestions : AskAboutPaper(s)
    \/ SubmitForm
    \/ \E req \in inflight, status \in OkStatuses :
          \E data \in PlainBodies : QuerySucceeds(req, status, data)
    \/ \E req \in inflight : QueryFails(req)
    \/ Retry

\* The fetch of a request in flight settles: with a response or with an error.
QueryAnswered ==
    \E req \in inflight :
        \/ \E status \in OkStatuses, data \in PlainBodies : QuerySucceeds(req, status, data)
        \/ QueryFails(req)

\* The query page with a question typed or erased, submits, answers and "Try Again".
RetryNext ==
    \/ \E s \in {<<>>, <<"a">>} : SetQuestion(s)
    \/ SetEnableReranking
    \/ SubmitForm
    \/ \E req \in inflight, status \in OkStatuses :
          \E data \in PlainBodies : QuerySucceeds(req, status, data)
    \/ \E req \in inflight : QueryFails(req)
    \/ Retry

\* The query page with a question typed, the papers asked about and submits.
PrefillNext ==
    \/ \E s \in {<<>>, <<"a">>} : SetQuestion(s)
    \/ \E title \in PaperTitles : ClickAskAboutPaper(title)
    \/ SubmitForm
    \/ \E req \in inflight, status \in OkStatuses :
          \E data \in PlainBodies : QuerySucceeds(req, status, data)
    \/ \E req \in inflight : QueryFails(req)

\* The query page with one question and every response body.
ResultsNext ==
    \/ SetQuestion(<<"a">>)
    \/ SubmitForm
    \/ \E req \in inflight, status \in OkStatuses, data \in ResponseBodies :
          QuerySucceeds(req, status, data)
    \/ \E req \in inflight : QueryFails(req)
    \/ Retry
    \/ \E i \in PartPositions : ClickCitation(i)



(***************************************************************************)
(* The rank change badge of ChunksPanel: getRankChangeDisplay              *)
(***************************************************************************)

\* Bound of the model: the ranks run from 1 to MaxRank.
MaxRank == 11

\* rerank_score: null, undefined (the field is absent) or a number.
JsNull == [tag |-> "null"]
JsUndefined == [tag |-> "undefined"]
JsNumber(x) == [tag |-> "number", value |-> x]

RerankScores == {JsNull, JsUndefined} \cup {JsNumber(x) : x \in {-1, 0, 1}}

DigitChar(d) ==
    CASE d = 0 -> "0" [] d = 1 -> "1" [] d = 2 -> "2" [] d = 3 -> "3" [] d = 4 -> "4"
      [] d = 5 -> "5" [] d = 6 -> "6" [] d = 7 -> "7" [] d = 8 -> "8" [] d = 9 -> "9"

\* The decimal digits of a natural number.
RECURSIVE NatToString(_)
NatToString(n) ==
    IF n < 10 THEN <<DigitChar(n)>>
    ELSE Append(NatToString(n \div 10), DigitChar(n % 10))

\* `${n}` of an integer.
NumberToString(n) == IF n < 0 THEN <<"-">> \o NatToString(-n) ELSE NatToString(n)

\* rerankScore == null: true of null and of undefined.
LooselyNull(v) == v.tag \in {"null", "undefined"}

\* A test by truth value: !rerankScore is true of 0 as well.
Falsy(v) == v.tag \in {"null", "undefined"} \/ (v.tag = "number" /\ v.value = 0)

\* getRankChangeDisplay with if (!rerankScore) for its first test.
getRankChangeDisplayFalsy(originalRank, rank, rerankScore) ==
    IF Falsy(rerankScore) THEN None
    ELSE LET change == originalRank - rank
         IN  IF change > 0
             THEN Some([Icon |-> "ArrowUp", text |-> <<"+">> \o NumberToString(change)])
             ELSE IF change < 0
                  THEN Some([Icon |-> "ArrowDown", text |-> NumberToString(change)])
                  ELSE Some([Icon |-> "Minus", text |-> <<"=">>])

\* getRankChangeDisplay: null, or the icon and the text of the badge.
getRankChangeDisplay(originalRank, rank, rerankScore) ==
    IF LooselyNull(rerankScore) THEN None
    ELSE LET change == originalRank - rank
         IN  IF change > 0
             THEN Some([Icon |-> "ArrowUp", text |-> <<"+">> \o NumberToString(change)])
             ELSE IF change < 0
                  THEN Some([Icon |-> "ArrowDown", text |-> NumberToString(change)])
                  ELSE Some([Icon |-> "Minus", text |-> <<"=">>])

RankIdle ==
    /\ rankIn = None
    /\ rankOut = None

RankInputs ==
    /\ rankIn \in {Some([original_rank |-> o, rank |-> r, rerank_score |-> v]) :
                      o \in 1..MaxRank, r \in 1..MaxRank, v \in RerankScores}
    /\ rankOut = None

CallGetRankChangeDisplay ==
    /\ rankIn # None
    /\ rankOut = None
    /\ rankOut' = Some(getRankChangeDisplay(Val(rankIn).original_rank, Val(rankIn).rank,
                                            Val(rankIn).rerank_score))
    /\ UNCHANGED <<rankIn, viewVars, atlasVars, panelVars, evalVars, authVars, askVars,
                   inputVars, pageVars, dbVars>>

RankNext == CallGetRankChangeDisplay

(***************************************************************************)
(* The Atlas: RecomputeButton, useEmbeddingSpace, and the server behind    *)
(* them. The server is not part of these sources: it is modelled from its  *)
(* specification (one recompute at a time, a request that meets a running  *)
(* one is rejected, a finished one replaces the snapshot as a whole, the   *)
(* read endpoints answer with the snapshot published last).                *)
(***************************************************************************)

\* Bound of the model: the number of recompute requests sent.
MaxRecomputes == 3

\* Two RecomputeButton instances: the first shares the QueryClient of the
\* atlas page, the second runs in another client.
Buttons == {1, 2}
LocalButtons == {1}

\* queryKey: ["/papers/embeddings"] and ["/papers/clusters"]
ReadQueries == {"/papers/embeddings", "/papers/clusters"}

\* The status the server rejects a recompute with while another one runs.
ConflictStatus == 409

NoFetch == [phase |-> "none", snapshot |-> 0]

\* Everything but the Atlas.
offAtlasVars == <<rankVars, viewVars, panelVars, evalVars, authVars, askVars,
                  inputVars, pageVars, dbVars>>

AtlasInit ==
    /\ srvSnapshot = 0
    /\ srvJob = None
    /\ recStatus = [b \in Buttons |-> "idle"]
    /\ recResult = [b \in Buttons |-> None]
    /\ recError = [b \in Buttons |-> None]
    /\ recInflight = {}
    /\ recCount = 0
    /\ qData = [q \in ReadQueries |-> None]
    /\ qFetch = [q \in ReadQueries |-> [phase |-> "sent", snapshot |-> 0]]

\* const { mutate, isPending, error } = useRecompute...()
RecomputePending(b) == recStatus[b] = "pending"

\* A button that can be clicked while its recompute is pending.
RecomputeDisabledNever(b) == FALSE

\* <Button onClick={handleRecompute} disabled={isPending}>
RecomputeDisabled(b) == RecomputePending(b)

\* handleRecompute: setResult(null); mutate().
HandleRecompute(b) ==
    /\ ~RecomputeDisabled(b)
    /\ recCount < MaxRecomputes
    /\ recCount' = recCount + 1
    /\ recResult' = [recResult EXCEPT ![b] = None]
    /\ recStatus' = [recStatus EXCEPT ![b] = "pending"]
    /\ recError' = [recError EXCEPT ![b] = None]
    /\ recInflight' = recInflight \cup {[id |-> recCount + 1, button |-> b,
                                         phase |-> "sent", snapshot |-> 0]}
    /\ UNCHANGED <<srvSnapshot, srvJob, qData, qFetch, offAtlasVars>>

\* A server that starts every recompute it is asked for.
RecomputeAdmittedAlways(job) == TRUE

\* Server: a recompute is admitted only while none is running.
RecomputeAdmitted(job) == job = None

\* Server: the request arrives and is admitted; the recompute starts.
ServerStartsRecompute(req) ==
    /\ req \in recInflight
    /\ req.phase = "sent"
    /\ RecomputeAdmitted(srvJob)
    /\ srvJob' = Some(req.id)
    /\ recInflight' = (recInflight \ {req}) \cup {[req EXCEPT !.phase = "running"]}
    /\ UNCHANGED <<srvSnapshot, recStatus, recResult, recError, recCount, qData, qFetch,
                   offAtlasVars>>

\* Server: the request arrives while a recompute runs; it is rejected.
ServerRejectsRecompute(req) ==
    /\ req \in recInflight
    /\ req.phase = "sent"
    /\ ~RecomputeAdmitted(srvJob)
    /\ recInflight' = (recInflight \ {req}) \cup {[req EXCEPT !.phase = "rejected"]}
    /\ UNCHANGED <<srvSnapshot, srvJob, recStatus, recResult, recError, recCount, qData,
                   qFetch, offAtlasVars>>

\* Server: a recompute finishes; its output replaces the snapshot.
ServerFinishesRecompute(req) ==
    /\ req \in recInflight
    /\ req.phase = "running"
    /\ srvSnapshot' = srvSnapshot + 1
    /\ srvJob' = IF srvJob = Some(req.id) THEN None ELSE srvJob
    /\ recInflight' = (recInflight \ {req})
                          \cup {[req EXCEPT !.phase = "done", !.snapshot = srvSnapshot + 1]}
    /\ UNCHANGED <<recStatus, recResult, recError, recCount, qData, qFetch, offAtlasVars>>

\* queryClient.invalidateQueries: the queries of this client are fetched anew.
Invalidated(b, fetch) ==
    IF b \in LocalButtons THEN [q \in ReadQueries |-> [phase |-> "sent", snapshot |-> 0]]
    ELSE fetch

\* The response arrives with status 200: onSuccess stores the result and
\* invalidates the two read queries.
RecomputeSucceeds(req) ==
    /\ req \in recInflight
    /\ req.phase = "done"
    /\ recInflight' = recInflight \ {req}
    /\ recStatus' = [recStatus EXCEPT ![req.button] = "success"]
    /\ recResult' = [recResult EXCEPT ![req.button] = Some(req.snapshot)]
    /\ qFetch' = Invalidated(req.button, qFetch)
    /\ UNCHANGED <<srvSnapshot, srvJob, recError, recCount, qData, offAtlasVars>>

\* The response arrives with the status of a rejection: customFetch throws
\* an APIError and the mutation has an error.
RecomputeFails(req) ==
    /\ req \in recInflight
    /\ req.phase = "rejected"
    /\ recInflight' = recInflight \ {req}
    /\ recStatus' = [recStatus EXCEPT ![req.button] = "error"]
    /\ recError' = [recError EXCEPT ![req.button] = Some(ConflictStatus)]
    /\ UNCHANGED <<srvSnapshot, srvJob, recResult, recCount, qData, qFetch, offAtlasVars>>

\* Server: a read request is answered with the snapshot published last.
ServerAnswersRead(q) ==
    /\ qFetch[q].phase = "sent"
    /\ qFetch' = [qFetch EXCEPT ![q] = [phase |-> "answered", snapshot |-> srvSnapshot]]
    /\ UNCHANGED <<srvSnapshot, srvJob, recStatus, recResult, recError, recInflight,
                   recCount, qData, offAtlasVars>>

\* The answer of a read request arrives: the query holds its data.
ReadArrives(q) ==
    /\ qFetch[q].phase = "answered"
    /\ qData' = [qData EXCEPT ![q] = Some(qFetch[q].snapshot)]
    /\ qFetch' = [qFetch EXCEPT ![q] = NoFetch]
    /\ UNCHANGED <<srvSnapshot, srvJob, recStatus, recResult, recError, recInflight,
                   recCount, offAtlasVars>>

\* isLoading: embeddingsQuery.isLoading || clustersQuery.isLoading, a query
\* loading while it fetches without holding data.
AtlasLoading == \E q \in ReadQueries : qData[q] = None /\ qFetch[q].phase # "none"

\* The page shows papers and clusters together.
AtlasShown == ~AtlasLoading /\ \A q \in ReadQueries : qData[q] # None

AtlasNext ==
    \/ \E b \in Buttons : HandleRecompute(b)
    \/ \E req \in recInflight : ServerStartsRecompute(req)
    \/ \E req \in recInflight : ServerRejectsRecompute(req)
    \/ \E req \in recInflight : ServerFinishesRecompute(req)
    \/ \E req \in recInflight : RecomputeSucceeds(req)
    \/ \E req \in recInflight : RecomputeFails(req)
    \/ \E q \in ReadQueries : ServerAnswersRead(q)
    \/ \E q \in ReadQueries : ReadArrives(q)

(***************************************************************************)
(* PapersPanel, fed by useEmbeddingSpace                                   *)
(***************************************************************************)

\* Bound of the model: the number of papers of the embeddings response.
MaxPapers == 2

\* cluster_id: p.cluster_id ?? -1
NoiseClusterId == -1

\* cluster_id of a paper as the server sends it: null or a number.
RawClusterIds == {None, Some(-2), Some(NoiseClusterId), Some(0), Some(1), Some(7)}

RawPaperLists == UNION {[1..n -> RawClusterIds] : n \in 0..MaxPapers}

\* The ids of the clusters response: every list of 0 and 1 without repetition.
ClusterLists == {<<>>, <<0>>, <<1>>, <<0, 1>>, <<1, 0>>}

Range(f) == {f[i] : i \in DOMAIN f}

\* An operator ?? that maps null to cluster 0.
NullishZero(v, d) == IF v = None THEN 0 ELSE Val(v)

\* v ?? d
Nullish(v, d) == IF v = None THEN d ELSE Val(v)

\* useEmbeddingSpace: the papers handed to the panel, paper i of the response
\* with paper_id i.
PanelPapers(raw) ==
    [i \in DOMAIN raw |-> [paper_id |-> i, cluster_id |-> Nullish(raw[i], NoiseClusterId)]]

\* ids.join(",")
RECURSIVE JoinIds(_)
JoinIds(ids) ==
    IF ids = <<>> THEN <<>>
    ELSE IF Len(ids) = 1 THEN NumberToString(ids[1])
    ELSE NumberToString(ids[1]) \o <<",">> \o JoinIds(Tail(ids))

\* clusterKey
ClusterKey(clusters) == JoinIds(clusters)

IsUnclustered(p) == p.cluster_id < 0

\* unclusteredPapers
UnclusteredPapers(list) == SelectSeq(list, IsUnclustered)

\* papersByCluster.get(id) ?? []
PapersByCluster(list, id) ==
    LET InCluster(p) == ~IsUnclustered(p) /\ p.cluster_id = id
    IN  SelectSeq(list, InCluster)

\* The sections rendered: position i of clusters has one unless it has no paper.
ClusterSectionShown(list, clusters, i) == PapersByCluster(list, clusters[i]) # <<>>

\* {unclusteredPapers.length > 0 && ...}
UnclusteredSectionShown(list) == UnclusteredPapers(list) # <<>>

\* clusterColors.noise and the colours of clusterAppearances, in order.
NoiseColor == "noise"
ClusterAppearanceColors ==
    <<"coolDark", "warmMedium", "coolLight", "warmDark", "coolMedium", "warmLight">>

\* getClusterColor(clusterId) == getClusterAppearance(clusterId).color
getClusterColor(clusterId) ==
    IF clusterId < 0 THEN NoiseColor
    ELSE ClusterAppearanceColors[(clusterId % Len(ClusterAppearanceColors)) + 1]

\* A panel that keeps its expanded set when the clusters change.
SyncExpandedNever(key, prev, clusters, expanded) == expanded

\* if (clusterKey !== prevClusterKey) setExpandedClusters(new Set(ids))
SyncExpanded(key, prev, clusters, expanded) ==
    IF key # prev THEN Range(clusters) ELSE expanded

\* The updater of toggleCluster.
Toggled(prev, clusterId) ==
    IF clusterId \in prev THEN prev \ {clusterId} ELSE prev \cup {clusterId}

PanelOp(op, c) == [op |-> op, cluster |-> c]

\* Everything but the panel.
offPanelVars == <<rankVars, viewVars, atlasVars, evalVars, authVars, askVars,
                  inputVars, pageVars, dbVars>>

\* The panel before any data: no cluster, nothing expanded.
PanelIdle ==
    /\ rawPapers = <<>>
    /\ rawClusters = <<>>
    /\ expandedClusters = {}
    /\ prevClusterKey = ClusterKey(<<>>)
    /\ panelOp = PanelOp("mount", 0)

\* The first render: useState(() => new Set(clusters.map((c) => c.id))) and
\* useState(clusterKey), with whatever clusters the queries hold then.
PanelMount ==
    /\ rawPapers = <<>>
    /\ rawClusters \in ClusterLists
    /\ expandedClusters = Range(rawClusters)
    /\ prevClusterKey = ClusterKey(rawClusters)
    /\ panelOp = PanelOp("mount", 0)

\* The embeddings query holds new data; the panel renders again.
EmbeddingsArrive(raw) ==
    /\ raw # rawPapers
    /\ rawPapers' = raw
    /\ prevClusterKey' = ClusterKey(rawClusters)
    /\ expandedClusters' = SyncExpanded(ClusterKey(rawClusters), prevClusterKey,
                                        rawClusters, expandedClusters)
    /\ panelOp' = PanelOp("papers", 0)
    /\ UNCHANGED <<rawClusters, offPanelVars>>

\* The clusters query holds new data; the panel renders again.
ClustersArrive(clusters) ==
    /\ clusters # rawClusters
    /\ rawClusters' = clusters
    /\ prevClusterKey' = ClusterKey(clusters)
    /\ expandedClusters' = SyncExpanded(ClusterKey(clusters), prevClusterKey,
                                        clusters, expandedClusters)
    /\ panelOp' = PanelOp("clusters", 0)
    /\ UNCHANGED <<rawPapers, offPanelVars>>

\* onOpenChange of a rendered section: toggleCluster(clusterId).
ToggleCluster(clusterId) ==
    /\ \/ /\ clusterId = NoiseClusterId
          /\ UnclusteredSectionShown(PanelPapers(rawPapers))
       \/ \E i \in DOMAIN rawClusters :
             /\ rawClusters[i] = clusterId
             /\ ClusterSectionShown(PanelPapers(rawPapers), rawClusters, i)
    /\ expandedClusters' = Toggled(expandedClusters, clusterId)
    /\ panelOp' = PanelOp("toggle", clusterId)
    /\ UNCHANGED <<rawPapers, rawClusters, prevClusterKey, offPanelVars>>

PanelNext ==
    \/ \E raw \in RawPaperLists : EmbeddingsArrive(raw)
    \/ \E clusters \in ClusterLists : ClustersArrive(clusters)
    \/ \E c \in {NoiseClusterId, 0, 1} : ToggleCluster(c)

(***************************************************************************)
(* Components without state: they render what they are given               *)
(***************************************************************************)

ViewIdle ==
    /\ viewIn = None
    /\ viewOut = None

\* Everything but the props and the output of the component rendered.
offViewVars == <<rankVars, atlasVars, panelVars, evalVars, authVars, askVars,
                 inputVars, pageVars, dbVars>>

(***************************************************************************)
(* FaithfulnessReport                                                      *)
(***************************************************************************)

\* Bound of the model: the number of claims of a faithfulness result.
MaxClaims == 3

\* A score is a number of thousandths: 900 is 0.9.
ScoreUnit == 10 * 10 * 10

Verdicts == {"supported", "unsupported", "partial"}

\* The scores a response carries: the server computes them, the page takes
\* what it receives.
Scores == {0, 4, 5, 500, 900, 994, 995, ScoreUnit}

ClaimLists == UNION {[1..n -> Verdicts] : n \in 0..MaxClaims}

\* Math.round(x) of x = n / d with d > 0: the integer nearest to x, halves up.
RoundDiv(n, d) == (2 * n + d) \div (2 * d)

\* const scorePercent = Math.round(faithfulness.score * 100)
ScorePercent(score) == RoundDiv(score * 100, ScoreUnit)

\* faithfulness.claims.filter((c) => c.verdict === "supported").length
SupportedCount(claims) == Cardinality({i \in DOMAIN claims : claims[i] = "supported"})

\* FaithfulnessReport: the badge "{scorePercent}%" and the line
\* "{supportedCount} of {claims.length} claims supported".
FaithfulnessReport(faithfulness) ==
    [percent |-> ScorePercent(faithfulness.score),
     supported |-> SupportedCount(faithfulness.claims),
     total |-> Len(faithfulness.claims)]

ReportInputs ==
    /\ viewIn \in {Some([score |-> sc, claims |-> cl]) : sc \in Scores, cl \in ClaimLists}
    /\ viewOut = None

RenderFaithfulnessReport ==
    /\ viewIn # None
    /\ viewOut = None
    /\ viewOut' = Some(FaithfulnessReport(Val(viewIn)))
    /\ UNCHANGED <<viewIn, offViewVars>>

ReportNext == RenderFaithfulnessReport

(***************************************************************************)
(* TimingTrace                                                             *)
(***************************************************************************)

\* The stages of the breakdown: label and field of the trace, in the order of
\* the timings array.
StageLabels == <<"Embedding", "Retrieval", "Reranking", "Generation", "Faithfulness">>

\* The durations a trace carries, in milliseconds: null, absent, or a number.
StageValues == {JsNull, JsUndefined, JsNumber(0), JsNumber(1504)}
TotalValues == {70, 5350}

\* A filter with t.value !== null, which keeps an absent value.
StageKeptStrict(v) == v # JsNull

\* .filter((t) => t.value != null)
StageKept(v) == ~LooselyNull(v)

TwoDigits(n) == <<DigitChar(n \div 10), DigitChar(n % 10)>>

\* formatTime of a number of milliseconds that is not negative.
FormatMs(ms) ==
    IF ms < 1000 THEN NatToString(ms) \o <<"m", "s">>
    ELSE LET hundredths == RoundDiv(ms, 10)
         IN  NatToString(hundredths \div 100) \o <<".">>
                 \o TwoDigits(hundredths % 100) \o <<"s">>

\* formatTime: "-" for null; an absent value is no number.
formatTime(v) ==
    IF v = JsNull THEN <<"-">>
    ELSE IF v = JsUndefined THEN <<"N", "a", "N", "s">>
    ELSE FormatMs(v.value)

\* TimingTrace: the total in the header and the rows of the breakdown.
TimingTrace(trace) ==
    LET Kept(i) == StageKept(trace.stages[i])
        kept == SelectSeq(<<1, 2, 3, 4, 5>>, Kept)
    IN  [total |-> formatTime(JsNumber(trace.total_time_ms)),
         rows |-> [k \in DOMAIN kept |->
                      [label |-> StageLabels[kept[k]],
                       value |-> trace.stages[kept[k]],
                       text |-> formatTime(trace.stages[kept[k]])]]]

TraceInputs ==
    /\ viewIn \in {Some([stages |-> st, total_time_ms |-> t]) :
                      st \in [1..5 -> StageValues], t \in TotalValues}
    /\ viewOut = None

RenderTimingTrace ==
    /\ viewIn # None
    /\ viewOut = None
    /\ viewOut' = Some(TimingTrace(Val(viewIn)))
    /\ UNCHANGED <<viewIn, offViewVars>>

TraceNext == RenderTimingTrace

(***************************************************************************)
(* A failed request: custom-fetch.ts, ErrorDisplay                         *)
(***************************************************************************)

\* s.includes(needle)
Includes(s, needle) ==
    \E i \in 1..(Len(s) - Len(needle) + 1) : SubSeq(s, i, i + Len(needle) - 1) = needle

\* The texts a server puts in message or detail.
ServerErrorText ==
    <<"S", "e", "r", "v", "e", "r", " ", "e", "r", "r", "o", "r">>
ConnectText ==
    <<"C", "a", "n", "n", "o", "t", " ", "c", "o", "n", "n", "e", "c", "t", " ", "t",
      "o", " ", "d", "a", "t", "a", "b", "a", "s", "e">>
FetchText ==
    <<"C", "o", "u", "l", "d", " ", "n", "o", "t", " ", "f", "e", "t", "c", "h", " ",
      "e", "m", "b", "e", "d", "d", "i", "n", "g", "s">>
NetworkText ==
    <<"U", "p", "s", "t", "r", "e", "a", "m", " ", "n", "e", "t", "w", "o", "r", "k",
      " ", "t", "i", "m", "e", "o", "u", "t">>
ErrorTexts == {<<>>, ServerErrorText, ConnectText, FetchText, NetworkText}

\* The message of the Error customFetch throws when fetch itself throws.
FailedToConnect ==
    <<"F", "a", "i", "l", "e", "d", " ", "t", "o", " ", "c", "o", "n", "n", "e", "c",
      "t", " ", "t", "o", " ", "s", "e", "r", "v", "e", "r", ".", " ", "P", "l", "e",
      "a", "s", "e", " ", "c", "h", "e", "c", "k", " ", "t", "h", "a", "t", " ", "t",
      "h", "e", " ", "b", "a", "c", "k", "e", "n", "d", " ", "i", "s", " ", "r", "u",
      "n", "n", "i", "n", "g", ".">>

RequestFailedPrefix ==
    <<"R", "e", "q", "u", "e", "s", "t", " ", "f", "a", "i", "l", "e", "d", " ", "w",
      "i", "t", "h", " ", "s", "t", "a", "t", "u", "s", " ">>

FailedToFetch ==
    <<"F", "a", "i", "l", "e", "d", " ", "t", "o", " ", "f", "e", "t", "c", "h">>

ConnectionErrorText ==
    <<"C", "o", "u", "l", "d", " ", "n", "o", "t", " ", "c", "o", "n", "n", "e", "c",
      "t", " ", "t", "o", " ", "t", "h", "e", " ", "b", "a", "c", "k", "e", "n", "d",
      ".", " ", "P", "l", "e", "a", "s", "e", " ", "c", "h", "e", "c", "k", " ", "t",
      "h", "a", "t", " ", "t", "h", "e", " ", "s", "e", "r", "v", "e", "r", " ", "i",
      "s", " ", "r", "u", "n", "n", "i", "n", "g", ".">>

\* The statuses of the responses: response.ok is a status from 200 to 299.
ResponseStatuses == {200, 404, 422, 500}

ResponseOk(status) == status >= 200 /\ status <= 299

\* The bodies of the responses: a JSON object with message and detail, each
\* present or not, or a body that is no JSON.
NotJson == [json |-> FALSE, message |-> None, detail |-> None]
ErrorBodies ==
    {NotJson} \cup [json : {TRUE},
                    message : {None} \cup {Some(t) : t \in ErrorTexts},
                    detail : {None} \cup {Some(t) : t \in ErrorTexts}]

\* The answers to a request: no connection (fetch throws), or a response.
Unreachable == [reached |-> FALSE, status |-> None, body |-> NotJson]
FetchOutcomes ==
    {Unreachable} \cup [reached : {TRUE},
                        status : {Some(n) : n \in ResponseStatuses},
                        body : ErrorBodies]

\* a || d for two optional strings: the first that is present and not empty.
FirstTruthy(a, d) ==
    IF a # None /\ Truthy(Val(a)) THEN a
    ELSE IF d # None /\ Truthy(Val(d)) THEN d
    ELSE None

\* ErrorDisplay: isNetworkError.
IsNetworkError(error) ==
    \/ Includes(error.message, <<"f", "e", "t", "c", "h">>)
    \/ Includes(error.message, <<"n", "e", "t", "w", "o", "r", "k">>)
    \/ Includes(error.message, <<"c", "o", "n", "n", "e", "c", "t">>)
    \/ error.message = FailedToFetch

\* customFetch: what it throws, or the {data, status} it returns.
customFetch(outcome) ==
    IF ~outcome.reached
    THEN [kind |-> "throw", name |-> "Error", message |-> FailedToConnect,
          status |-> None, detail |-> None]
    ELSE IF ~ResponseOk(Val(outcome.status))
    THEN LET fallback == RequestFailedPrefix \o NatToString(Val(outcome.status))
             chosen == IF ~outcome.body.json THEN None
                       ELSE FirstTruthy(outcome.body.message, outcome.body.detail)
         IN  [kind |-> "throw", name |-> "APIError",
              message |-> IF chosen = None THEN fallback ELSE Val(chosen),
              status |-> outcome.status,
              detail |-> IF ~outcome.body.json THEN None ELSE outcome.body.detail]
    ELSE [kind |-> "return", name |-> "", message |-> <<>>,
          status |-> outcome.status, detail |-> None]

\* ErrorDisplay: the title and the text of the alert.
ErrorDisplay(error) ==
    IF IsNetworkError(error)
    THEN [title |-> "Connection Error", text |-> ConnectionErrorText]
    ELSE [title |-> "Request Failed", text |-> error.message]

\* The query is sent, the request is answered, and the page renders
\* {error && <ErrorDisplay error={error} />}.
FailedRequestView(outcome) ==
    LET result == customFetch(outcome)
    IN  [result |-> result,
         alert |-> IF result.kind = "throw" THEN Some(ErrorDisplay(result)) ELSE None]

OutcomeInputs ==
    /\ viewIn \in {Some(o) : o \in FetchOutcomes}
    /\ viewOut = None

RenderFailedRequest ==
    /\ viewIn # None
    /\ viewOut = None
    /\ viewOut' = Some(FailedRequestView(Val(viewIn)))
    /\ UNCHANGED <<viewIn, offViewVars>>

FailureNext == RenderFailedRequest

(***************************************************************************)
(* The admin routes: proxy.ts                                              *)
(***************************************************************************)

AdminPrefix == <<"/", "a", "d", "m", "i", "n">>
LoginPath == <<"/", "l", "o", "g", "i", "n">>
RedirectParam == <<"r", "e", "d", "i", "r", "e", "c", "t">>

\* request.nextUrl.pathname. config.matcher hands proxy the requests for
\* /admin and below; the function is applied to every pathname here.
Pathnames ==
    {<<"/">>,
     AdminPrefix,
     <<"/", "a", "d", "m", "i", "n", "/", "p", "a", "p", "e", "r", "s">>,
     <<"/", "a", "d", "m", "i", "n", "x">>,
     <<"/", "A", "d", "m", "i", "n">>,
     LoginPath,
     <<"/", "x", "/", "a", "d", "m", "i", "n">>}

\* request.cookies.get("access_token"): absent, or a cookie with its value.
AccessTokens == {None, Some(<<>>), Some(<<"t">>)}

Origins == {"http://localhost:3000", "https://rag.example"}

Searches == {<<>>, <<"?", "t", "a", "b", "=", "1">>}

ProxyRequests ==
    [origin : Origins, pathname : Pathnames, search : Searches,
     access_token : AccessTokens, other_cookie : BOOLEAN]

\* s.startsWith(prefix)
StartsWith(s, prefix) ==
    Len(s) >= Len(prefix) /\ SubSeq(s, 1, Len(prefix)) = prefix

\* A check that takes a cookie without a value for a missing one.
TokenMissingOrEmpty(token) == token = None \/ ~Truthy(Val(token))

\* !token, for the cookie object that cookies.get returns, or undefined.
TokenMissing(token) == token = None

\* The serialization of a query parameter's value: "/" is written as %2F,
\* letters stay.
RECURSIVE UrlEncode(_)
UrlEncode(s) ==
    IF s = <<>> THEN <<>>
    ELSE (IF Head(s) = "/" THEN <<"%", "2", "F">> ELSE <<Head(s)>>) \o UrlEncode(Tail(s))

\* new URL("/login", request.url); loginUrl.searchParams.set("redirect", pathname).
LoginUrl(request) ==
    [origin |-> request.origin,
     pathname |-> LoginPath,
     search |-> <<"?">> \o RedirectParam \o <<"=">> \o UrlEncode(request.pathname)]

\* proxy: NextResponse.redirect(loginUrl) or NextResponse.next().
proxy(request) ==
    IF StartsWith(request.pathname, AdminPrefix) /\ TokenMissing(request.access_token)
    THEN [kind |-> "redirect", url |-> Some(LoginUrl(request))]
    ELSE [kind |-> "next", url |-> None]

ProxyInputs ==
    /\ viewIn \in {Some(r) : r \in ProxyRequests}
    /\ viewOut = None

CallProxy ==
    /\ viewIn # None
    /\ viewOut = None
    /\ viewOut' = Some(proxy(Val(viewIn)))
    /\ UNCHANGED <<viewIn, offViewVars>>

ProxyNext == CallProxy

(***************************************************************************)
(* useAuth and AdminLayout                                                 *)
(***************************************************************************)

MaxAuthOps == 3

\* The user GET /auth/me answers with.
AuthUsers == {"admin"}

\* The two versions of AdminLayout among the sources: app/admin/layout.tsx,
\* and the one that waits for a user and redirects.
LayoutVersions == {"plain", "guarded"}

\* The answers to GET /auth/me: 200 with the user, another ok status, or a
\* failure (customFetch throws).
MeAnswers == {"user", "other", "failed"}

offAuthVars == <<rankVars, viewVars, atlasVars, panelVars, evalVars, askVars,
                 inputVars, pageVars, dbVars>>

AuthEvent(name, op) == [name |-> name, op |-> op]

\* useState(null), useState(true), and the effect that calls checkAuth at mount.
AuthMounted ==
    /\ authUser = None
    /\ authLoading = TRUE
    /\ authNav = None
    /\ authReqs = {[op |-> 1, kind |-> "me", from |-> "checkAuth"]}
    /\ authCount = 1
    /\ authLatest = [op |-> 1, done |-> FALSE, user |-> None]
    /\ authEvent = AuthEvent("mount", 1)

AuthIdle == AuthMounted /\ authLayout = "guarded"

AuthMount == AuthMounted /\ authLayout \in LayoutVersions

\* An operation of the hook is called: its first request is sent.
StartAuthOp(kind, from) ==
    /\ authCount < MaxAuthOps
    /\ authCount' = authCount + 1
    /\ authReqs' = authReqs \cup {[op |-> authCount + 1, kind |-> kind, from |-> from]}
    /\ authLatest' = [op |-> authCount + 1, done |-> FALSE, user |-> None]
    /\ authEvent' = AuthEvent(from, authCount + 1)
    /\ UNCHANGED <<authUser, authLoading, authNav, authLayout, offAuthVars>>

\* checkAuth(): await getMe().
CallCheckAuth == StartAuthOp("me", "checkAuth")

\* login(data): await apiLogin(data).
CallLogin == StartAuthOp("login", "login")

\* logout(): await apiLogout().
CallLogout == StartAuthOp("logout", "logout")

\* The operation started last has finished and left user as it is now.
LatestAfter(req, user) ==
    IF req.op = authLatest.op THEN [op |-> req.op, done |-> TRUE, user |-> user]
    ELSE authLatest

\* checkAuth after its await: setUser(response.data) for status 200,
\* setUser(null) in catch, setIsLoading(false) in finally; login then goes on
\* with router.push("/admin").
MeSettles(req, answer) ==
    /\ req \in authReqs
    /\ req.kind = "me"
    /\ authReqs' = authReqs \ {req}
    /\ authUser' = IF answer = "user" THEN Some(CHOOSE u \in AuthUsers : TRUE)
                   ELSE IF answer = "failed" THEN None
                   ELSE authUser
    /\ authLoading' = FALSE
    /\ authNav' = IF req.from = "login" THEN Some("/admin") ELSE authNav
    /\ authLatest' = LatestAfter(req, authUser')
    /\ authEvent' = AuthEvent("me_" \o answer, req.op)
    /\ UNCHANGED <<authCount, authLayout, offAuthVars>>

\* login after await apiLogin(data): await checkAuth() sends GET /auth/me.
LoginSucceeds(req) ==
    /\ req \in authReqs
    /\ req.kind = "login"
    /\ authReqs' = (authReqs \ {req}) \cup {[op |-> req.op, kind |-> "me", from |-> "login"]}
    /\ authEvent' = AuthEvent("login_ok", req.op)
    /\ UNCHANGED <<authUser, authLoading, authNav, authCount, authLatest, authLayout,
                   offAuthVars>>

\* apiLogin throws: login throws, nothing is set.
LoginFails(req) ==
    /\ req \in authReqs
    /\ req.kind = "login"
    /\ authReqs' = authReqs \ {req}
    /\ authLatest' = LatestAfter(req, authUser)
    /\ authEvent' = AuthEvent("login_failed", req.op)
    /\ UNCHANGED <<authUser, authLoading, authNav, authCount, authLayout, offAuthVars>>

\* logout after await apiLogout(): setUser(null); router.push("/login").
LogoutSucceeds(req) ==
    /\ req \in authReqs
    /\ req.kind = "logout"
    /\ authReqs' = authReqs \ {req}
    /\ authUser' = None
    /\ authNav' = Some("/login")
    /\ authLatest' = LatestAfter(req, None)
    /\ authEvent' = AuthEvent("logout_ok", req.op)
    /\ UNCHANGED <<authLoading, authCount, authLayout, offAuthVars>>

\* apiLogout throws: logout throws before setUser and router.push.
LogoutFails(req) ==
    /\ req \in authReqs
    /\ req.kind = "logout"
    /\ authReqs' = authReqs \ {req}
    /\ authLatest' = LatestAfter(req, authUser)
    /\ authEvent' = AuthEvent("logout_failed", req.op)
    /\ UNCHANGED <<authUser, authLoading, authNav, authCount, authLayout, offAuthVars>>

\* AdminLayout of app/admin/layout.tsx: the loader while isLoading, the header
\* and the children otherwise.
AdminLayoutChildren == ~authLoading

\* AdminLayout with the guard: if (isLoading || !user) the loader.
AdminLayoutGuardedChildren == ~(authLoading \/ authUser = None)

\* The admin children are rendered by the version mounted.
ChildrenRendered ==
    IF authLayout = "guarded" THEN AdminLayoutGuardedChildren ELSE AdminLayoutChildren

\* The effect of the guarded AdminLayout: if (!isLoading && !user) router.replace("/login").
AdminLayoutRedirect ==
    /\ authLayout = "guarded"
    /\ ~authLoading
    /\ authUser = None
    /\ authNav # Some("/login")
    /\ authNav' = Some("/login")
    /\ authEvent' = AuthEvent("redirect", authLatest.op)
    /\ UNCHANGED <<authUser, authLoading, authReqs, authCount, authLatest, authLayout,
                   offAuthVars>>

AuthNext ==
    \/ CallCheckAuth
    \/ CallLogin
    \/ CallLogout
    \/ \E req \in authReqs, answer \in MeAnswers : MeSettles(req, answer)
    \/ \E req \in authReqs : LoginSucceeds(req)
    \/ \E req \in authReqs : LoginFails(req)
    \/ \E req \in authReqs : LogoutSucceeds(req)
    \/ \E req \in authReqs : LogoutFails(req)
    \/ AdminLayoutRedirect

(***************************************************************************)
(* EvaluateButton                                                          *)
(***************************************************************************)

MaxEvaluations == 2

AuthRequiredText ==
    <<"A", "u", "t", "h", "e", "n", "t", "i", "c", "a", "t", "i", "o", "n", " ", "r",
      "e", "q", "u", "i", "r", "e", "d", ".", " ", "P", "l", "e", "a", "s", "e", " ",
      "l", "o", "g", " ", "i", "n", " ", "a", "g", "a", "i", "n", ".">>
QueryNotFoundText ==
    <<"Q", "u", "e", "r", "y", " ", "n", "o", "t", " ", "f", "o", "u", "n", "d", ".">>
EvaluationFailedText ==
    <<"F", "a", "i", "l", "e", "d", " ", "t", "o", " ", "r", "u", "n", " ", "e", "v",
      "a", "l", "u", "a", "t", "i", "o", "n", ".", " ", "P", "l", "e", "a", "s", "e",
      " ", "t", "r", "y", " ", "a", "g", "a", "i", "n", ".">>

offEvalVars == <<rankVars, viewVars, atlasVars, panelVars, authVars, askVars,
                 inputVars, pageVars, dbVars>>

\* useState(false), useState(null), and a mutation that has not run.
EvalInit ==
    /\ evOpen = FALSE
    /\ evResult = None
    /\ evStatus = "idle"
    /\ evError = None
    /\ evInflight = None
    /\ evCount = 0

\* What customFetch throws for the answers to a request.
EvaluationErrors ==
    {customFetch(o) : o \in {x \in FetchOutcomes : customFetch(x).kind = "throw"}}

\* a || b for an optional string a and a string b.
OrElse(a, b) == IF a # None /\ Truthy(Val(a)) THEN Val(a) ELSE b

\* A getErrorMessage without the case of status 404.
getErrorMessageNo404(error) ==
    IF error = None THEN None
    ELSE IF Val(error).name = "APIError"
    THEN IF Val(error).status = Some(401) THEN Some(AuthRequiredText)
         ELSE Some(OrElse(Val(error).detail, Val(error).message))
    ELSE Some(EvaluationFailedText)

\* getErrorMessage
getErrorMessage(error) ==
    IF error = None THEN None
    ELSE IF Val(error).name = "APIError"
    THEN IF Val(error).status = Some(401) THEN Some(AuthRequiredText)
         ELSE IF Val(error).status = Some(404) THEN Some(QueryNotFoundText)
         ELSE Some(OrElse(Val(error).detail, Val(error).message))
    ELSE Some(EvaluationFailedText)

\* {errorMessage && <div>{errorMessage}</div>}: the message displayed, if any.
ErrorMessageShown ==
    LET errorMessage == getErrorMessage(evError)
    IN  IF errorMessage # None /\ Truthy(Val(errorMessage)) THEN errorMessage ELSE None

EvaluatePending == evStatus = "pending"

\* {result && !isPending && ...}: the metrics are rendered.
MetricsShown == evResult # None /\ ~EvaluatePending

\* A click on the Evaluate button, which is disabled while the mutation is
\* pending and is covered by the dialog while that is open: the dialog opens,
\* and without a result handleEvaluate calls mutate.
ClickEvaluate ==
    /\ ~EvaluatePending
    /\ ~evOpen
    /\ evOpen' = TRUE
    /\ IF evResult = None
       THEN /\ evCount < MaxEvaluations
            /\ evCount' = evCount + 1
            /\ evStatus' = "pending"
            /\ evError' = None
            /\ evInflight' = Some("sent")
       ELSE UNCHANGED <<evStatus, evError, evInflight, evCount>>
    /\ UNCHANGED <<evResult, offEvalVars>>

\* The request is answered with an ok status and onSuccess runs, before the
\* mutation leaves its pending state: if (response.status === 200) setResult(response.data).
EvaluationOnSuccess(status) ==
    /\ evInflight = Some("sent")
    /\ evInflight' = Some("stored")
    /\ evResult' = IF status = StoredStatus THEN Some(evCount) ELSE evResult
    /\ UNCHANGED <<evOpen, evStatus, evError, evCount, offEvalVars>>

\* After onSuccess the mutation succeeds.
EvaluationSucceeds ==
    /\ evInflight = Some("stored")
    /\ evInflight' = None
    /\ evStatus' = "success"
    /\ UNCHANGED <<evOpen, evResult, evError, evCount, offEvalVars>>

\* customFetch throws: the mutation has an error.
EvaluationFails(error) ==
    /\ evInflight = Some("sent")
    /\ evInflight' = None
    /\ evStatus' = "error"
    /\ evError' = Some(error)
    /\ UNCHANGED <<evOpen, evResult, evCount, offEvalVars>>

\* onOpenChange(false): setOpen(false); setResult(null).
CloseEvaluation ==
    /\ evOpen
    /\ evOpen' = FALSE
    /\ evResult' = None
    /\ UNCHANGED <<evStatus, evError, evInflight, evCount, offEvalVars>>

EvalNext ==
    \/ ClickEvaluate
    \/ \E status \in OkStatuses : EvaluationOnSuccess(status)
    \/ EvaluationSucceeds
    \/ \E error \in EvaluationErrors : EvaluationFails(error)
    \/ CloseEvaluation

Init == DbInit /\ UiInit /\ RankIdle /\ ViewIdle /\ AtlasInit /\ PanelIdle /\ EvalInit
    /\ AuthIdle /\ AskIdle

SpecDb == Init /\ [][DbNext]_vars

SpecInput == Init /\ [][InputNext]_vars

SpecResults == Init /\ [][ResultsNext]_vars

SpecPrefill == Init /\ [][PrefillNext]_vars

\* Every request sent is answered or fails: the promise of fetch settles.
SpecRetry == Init /\ [][RetryNext]_vars /\ WF_vars(QueryAnswered)

RankInit == DbInit /\ UiInit /\ RankInputs /\ ViewIdle /\ AtlasInit /\ PanelIdle /\ EvalInit
    /\ AuthIdle /\ AskIdle

SpecRank == RankInit /\ [][RankNext]_vars

\* The state around a component without state.
ElsewhereInit == DbInit /\ UiInit /\ RankIdle /\ AtlasInit /\ PanelIdle /\ EvalInit
    /\ AuthIdle /\ AskIdle

ReportInit == ElsewhereInit /\ ReportInputs

SpecReport == ReportInit /\ [][ReportNext]_vars

TraceInit == ElsewhereInit /\ TraceInputs

SpecTrace == TraceInit /\ [][TraceNext]_vars

FailureInit == ElsewhereInit /\ OutcomeInputs

SpecFailure == FailureInit /\ [][FailureNext]_vars

SpecAtlas == Init /\ [][AtlasNext]_vars

SpecEval == Init /\ [][EvalNext]_vars

AuthInit ==
    DbInit /\ UiInit /\ RankIdle /\ ViewIdle /\ AtlasInit /\ PanelIdle /\ EvalInit /\ AuthMount
        /\ AskIdle

SpecAuth == AuthInit /\ [][AuthNext]_vars

ProxyInit == ElsewhereInit /\ ProxyInputs

SpecProxy == ProxyInit /\ [][ProxyNext]_vars

PanelInit == DbInit /\ UiInit /\ RankIdle /\ ViewIdle /\ AtlasInit /\ PanelMount /\ EvalInit
    /\ AuthIdle /\ AskIdle

SpecPanel == PanelInit /\ [][PanelNext]_vars


(***************************************************************************)
(* Claims about the chunk store                                            *)
(***************************************************************************)

SimilarityNonIncreasing(rows) ==
    \A i, j \in DOMAIN rows : i < j => rows[i].similarity >= rows[j].similarity

\* The chunks that carry an embedding and pass the filter of the call.
EmbeddedChunks(filter) ==
    {c \in chunks : c.embedding # NullEmbedding
                    /\ (filter # None => c.paper_id \in Val(filter))}

\* C1 (as stated): a call without filter returns exactly min(top_k, C) rows,
\* C the number of chunks, in order of non-increasing similarity.
C1_ExactlyMinOfAllChunks ==
    (lastSearch # None /\ Val(lastSearch).filter = None) =>
        /\ Len(Val(lastSearch).rows) = Min(Val(lastSearch).match_count, Cardinality(chunks))
        /\ SimilarityNonIncreasing(Val(lastSearch).rows)

\* C1 (amended): every call returns at most min(top_k, E) rows, E the number of
\* chunks that have an embedding (and pass the filter), exactly that many when
\* the statement is evaluated without the approximate index, each row a
\* different chunk, in order of non-increasing similarity; with no such chunk
\* the result is empty.
C1_AtMostMinOfEmbedded ==
    lastSearch # None =>
        LET s == Val(lastSearch)
            E == Cardinality(EmbeddedChunks(s.filter))
        IN  /\ Len(s.rows) <= Min(s.match_count, E)
            /\ s.scan = "seq" => Len(s.rows) = Min(s.match_count, E)
            /\ \A i, j \in DOMAIN s.rows : i # j => s.rows[i].chunk_id # s.rows[j].chunk_id
            /\ SimilarityNonIncreasing(s.rows)
            /\ E = 0 => s.rows = <<>>

\* C1 witness: an exact call asking for two rows of a table of two chunks, one
\* of them without embedding, and one asking for two rows that differ in similarity.
C1_Witness ==
    /\ lastSearch # None
    /\ Val(lastSearch).scan = "seq"
    /\ Val(lastSearch).filter = None
    /\ Val(lastSearch).match_count = 2
    /\ \/ /\ Cardinality(chunks) = 2
          /\ Len(Val(lastSearch).rows) = 1
       \/ /\ Len(Val(lastSearch).rows) = 2
          /\ Val(lastSearch).rows[1].similarity > Val(lastSearch).rows[2].similarity

\* C2: every similarity returned lies in [0, 1].
C2_SimilarityInUnitRange ==
    lastSearch # None =>
        \A i \in DOMAIN Val(lastSearch).rows :
            /\ 0 <= Val(lastSearch).rows[i].similarity
            /\ Val(lastSearch).rows[i].similarity <= SimScale

\* C3: two executions with the same arguments against the unchanged table
\* return the same rows in the same order (here both evaluated exactly).
C3_RepeatReturnsSameRows ==
    (lastSearch # None /\ repeatRows # None /\ Val(lastSearch).scan = "seq") =>
        Val(repeatRows) = Val(lastSearch).rows

\* UNIQUE(paper_id, chunk_index) and the foreign key of chunks.paper_id.
C4_Integrity ==
    /\ \A c, d \in chunks :
           (c.paper_id = d.paper_id /\ c.chunk_index = d.chunk_index) => c = d
    /\ \A c \in chunks : c.paper_id \in papers

C4_DeleteStep ==
    (papers' # papers /\ papers' \subseteq papers) =>
        /\ chunks' \subseteq chunks
        /\ \A c \in chunks : c \in chunks' <=> c.paper_id \in papers'

\* C4: no two chunks share (paper_id, chunk_index), every chunk references an
\* existing paper, and a paper delete removes exactly the chunks of that paper.
C4_UniqueAndCascade == []C4_Integrity /\ [][C4_DeleteStep]_vars

\* C4 witness: a paper was deleted while the other paper keeps a chunk.
C4_Witness ==
    /\ lastOp = "delete_paper"
    /\ Cardinality(papers) = 1
    /\ chunks # {}

(***************************************************************************)
(* Claims about the query form and the query page                          *)
(***************************************************************************)

Blank(s) == \A i \in DOMAIN s : s[i] \in Whitespace

\* t is s without the whitespace at its two ends.
IsTrimmedFormOf(t, s) ==
    /\ t # <<>>
    /\ t[1] \notin Whitespace
    /\ t[Len(t)] \notin Whitespace
    /\ \E i \in 1..Len(s) :
          /\ t = SubSeq(s, i, i + Len(t) - 1)
          /\ \A k \in DOMAIN s : (k < i \/ k > i + Len(t) - 1) => s[k] \in Whitespace

\* C5: every call QueryInput makes to onSubmit carries a non-empty question
\* without whitespace at its ends, an integer top_k from 1 to 50 and a boolean
\* enable_reranking; while the slider and the switch are untouched top_k is 10
\* and enable_reranking is false; and a submit of an empty or whitespace-only
\* question makes no call.
C5_OnSubmitArguments ==
    LET calls == HandleSubmitCalls(question, topK, enableReranking)
    IN  /\ Len(calls) <= 1
        /\ Blank(question) <=> calls = <<>>
        /\ \A i \in DOMAIN calls :
              /\ IsTrimmedFormOf(calls[i].question, question)
              /\ calls[i].top_k \in Int
              /\ calls[i].top_k >= 1
              /\ calls[i].top_k <= 50
              /\ calls[i].enable_reranking \in BOOLEAN
              /\ ~controlsTouched => calls[i].top_k = 10 /\ calls[i].enable_reranking = FALSE
        /\ \A req \in inflight :
              /\ req.data.question # <<>>
              /\ ~Blank(req.data.question)
              /\ req.data.question[1] \notin Whitespace
              /\ req.data.question[Len(req.data.question)] \notin Whitespace
              /\ req.data.top_k \in 1..50
              /\ req.data.enable_reranking \in BOOLEAN
              /\ ~controlsTouched => req.data.top_k = 10 /\ req.data.enable_reranking = FALSE

\* A question typed with whitespace around it was submitted with the slider at
\* its maximum and reranking switched on.
C5_Witness ==
    /\ inflight # {}
    /\ question = <<" ", "a">>
    /\ \E req \in inflight :
          req.data = [question |-> <<"a">>, top_k |-> SliderMax, enable_reranking |-> TRUE]

\* C6: the Ask button is disabled exactly when a query is in progress or the
\* question holds nothing but whitespace, so a non-blank question enables it
\* and a cleared field disables it again.
C6_AskDisabledIffLoadingOrBlank ==
    AskDisabled <=> (mutStatus = "pending" \/ Blank(question))

\* After a query has completed the field holds whitespace only and the button
\* is disabled.
C6_Witness ==
    /\ mutateCount > 0
    /\ mutStatus # "pending"
    /\ question # <<>>
    /\ Blank(question)
    /\ AskDisabled

\* C7: at most one request is in flight, the controls and the Ask button are
\* disabled while it is, and the response on display belongs to the question
\* submitted last.
C7_DisplayedIsLatest ==
    /\ Cardinality(inflight) <= 1
    /\ IsLoading => ControlsDisabled /\ AskDisabled
    /\ ResultsShown => Val(response).request = mutateCount

(***************************************************************************)
(* Claims about the answer, its citations and the highlighted chunk        *)
(***************************************************************************)

\* The numbers n of the markers [n] in an answer.
MarkerNumbers(answer) ==
    LET parts == SplitMarkers(answer)
    IN  {ParseInt(Val(MatchMarker(parts[i]))) :
            i \in {j \in DOMAIN parts : MatchMarker(parts[j]) # None}}

\* C8: every marker [n] in the answer of a response that is stored and on
\* display has 1 <= n <= len(citations).
C8_MarkersHaveCitations ==
    ResultsShown =>
        \A n \in MarkerNumbers(Val(response).data.answer) :
            n >= 1 /\ n <= Len(Val(response).data.citations)

C9_ClickStep ==
    (lastClick' # lastClick \/ highlightedChunkId' # highlightedChunkId) =>
        /\ lastClick' # None
        /\ response # None
        /\ Val(lastClick') \in DOMAIN Val(response).data.citations
        /\ LET ids == Val(response).data.citations[Val(lastClick')].chunk_ids
               retrieved == Val(response).data.retrieved_chunks
           IN  /\ ids # <<>> =>
                     /\ highlightedChunkId' = Some(ids[1])
                     /\ HighlightedRows(retrieved, highlightedChunkId')
                            = {i \in DOMAIN retrieved : retrieved[i].chunk_id = ids[1]}
               /\ ids = <<>> => highlightedChunkId' = highlightedChunkId

\* C9: a click on the badge of marker [n] sets the highlighted chunk id to the
\* first chunk id of the n-th citation, ChunksPanel highlights the retrieved
\* chunks with that id and no other, and a click on a citation without chunk
\* ids leaves the highlight as it was.
C9_ClickHighlightsFirstChunk == [][C9_ClickStep]_vars

\* Badge [2], whose citation lists two chunks, was clicked: its first chunk is
\* highlighted, and it is the second of the retrieved chunks.
C9_Witness ==
    /\ lastClick = Some(2)
    /\ response # None
    /\ Len(Val(response).data.citations) = 2
    /\ Len(Val(response).data.citations[2].chunk_ids) = 2
    /\ highlightedChunkId = Some(ChunkB)
    /\ HighlightedRows(Val(response).data.retrieved_chunks, highlightedChunkId) = {2}

(***************************************************************************)
(* Claims about the rank change badge                                      *)
(***************************************************************************)

AllDigits(s) == s # <<>> /\ \A i \in DOMAIN s : s[i] \in DigitChars

\* C10: getRankChangeDisplay returns null exactly when rerank_score is null or
\* undefined; otherwise the arrow up and the text +d when original_rank - rank
\* = d > 0, the arrow down and the text -d when rank - original_rank = d > 0,
\* and the text = when the ranks are equal, d in decimal digits.
C10_RankChangeDisplay ==
    rankOut # None =>
        LET o == Val(rankIn).original_rank
            r == Val(rankIn).rank
            v == Val(rankIn).rerank_score
            display == Val(rankOut)
        IN  /\ display = None <=> (v = JsNull \/ v = JsUndefined)
            /\ display # None =>
                  LET text == Val(display).text
                      Icon == Val(display).Icon
                  IN  /\ o > r => /\ Icon = "ArrowUp"
                                  /\ Len(text) >= 2
                                  /\ text[1] = "+"
                                  /\ AllDigits(Tail(text))
                                  /\ ParseInt(Tail(text)) = o - r
                      /\ o < r => /\ Icon = "ArrowDown"
                                  /\ Len(text) >= 2
                                  /\ text[1] = "-"
                                  /\ AllDigits(Tail(text))
                                  /\ ParseInt(Tail(text)) = r - o
                      /\ o = r => /\ Icon = "Minus"
                                  /\ text = <<"=">>

\* original_rank 2 and rank 1 with a rerank score of 0 give +1.
C10_Witness ==
    /\ rankOut # None
    /\ Val(rankIn) = [original_rank |-> 2, rank |-> 1, rerank_score |-> JsNumber(0)]
    /\ Val(rankOut) = Some([Icon |-> "ArrowUp", text |-> <<"+", "1">>])

(***************************************************************************)
(* Claims about the faithfulness report                                    *)
(***************************************************************************)

\* C11: the score displayed lies in [0, 1], it is 1 exactly when every claim
\* is 'supported' and 0 exactly when none is, and the report shows 100%
\* exactly when N = M in its line 'N of M claims supported' (stated for a
\* result with at least one claim).
C11_ScoreAgreesWithVerdicts ==
    (viewOut # None /\ Val(viewIn).claims # <<>>) =>
        LET f == Val(viewIn)
            shown == Val(viewOut)
        IN  /\ 0 <= f.score /\ f.score <= ScoreUnit
            /\ f.score = ScoreUnit <=> \A i \in DOMAIN f.claims : f.claims[i] = "supported"
            /\ f.score = 0 <=> \A i \in DOMAIN f.claims : f.claims[i] # "supported"
            /\ shown.percent = 100 <=> shown.supported = shown.total

(***************************************************************************)
(* Claims about the Atlas                                                  *)
(***************************************************************************)

Running == {r \in recInflight : r.phase = "running"}

C12_OneRecompute ==
    /\ Cardinality(Running) <= 1
    /\ srvJob # None <=> \E r \in Running : srvJob = Some(r.id)
    /\ \A b \in Buttons :
          /\ Cardinality({r \in recInflight : r.button = b}) <= 1
          /\ RecomputePending(b) <=> \E r \in recInflight : r.button = b
          /\ recResult[b] # None => recStatus[b] = "success" /\ recError[b] = None
          /\ recError[b] # None => recStatus[b] = "error" /\ recResult[b] = None
    /\ \A b, c \in Buttons :
          (b # c /\ recResult[b] # None /\ recResult[c] # None) => recResult[b] # recResult[c]

C12_RecomputeStep ==
    /\ \A r \in recInflight' :
          (r.phase = "running" /\ r \notin recInflight) => Running = {}
    /\ \A r \in recInflight' :
          (r.phase = "rejected" /\ r \notin recInflight) =>
              \E o \in Running : o.button # r.button /\ o \in recInflight'
    /\ srvSnapshot' # srvSnapshot =>
          /\ srvSnapshot' = srvSnapshot + 1
          /\ Cardinality(Running) = 1
          /\ Running' = {}

C13_SameSnapshot ==
    AtlasShown => qData["/papers/embeddings"] = qData["/papers/clusters"]

(***************************************************************************)
(* Claims about PapersPanel                                                *)
(***************************************************************************)

\* The positions in a list of papers that hold paper id.
Listed(list, id) == {k \in DOMAIN list : list[k].paper_id = id}

\* C14: a paper whose cluster_id is null or negative gets cluster -1 for null,
\* is listed once under Unclustered and under no cluster, and has the noise
\* colour; a paper with cluster_id >= 0 is not listed under Unclustered.
C14_NoiseIsUnclustered ==
    LET shown == PanelPapers(rawPapers)
    IN  \A i \in DOMAIN rawPapers :
           /\ rawPapers[i] = None => shown[i].cluster_id = -1
           /\ (rawPapers[i] = None \/ Val(rawPapers[i]) < 0) =>
                 /\ Cardinality(Listed(UnclusteredPapers(shown), i)) = 1
                 /\ \A j \in DOMAIN rawClusters :
                       Listed(PapersByCluster(shown, rawClusters[j]), i) = {}
                 /\ getClusterColor(shown[i].cluster_id) = NoiseColor
           /\ (rawPapers[i] # None /\ Val(rawPapers[i]) >= 0) =>
                 /\ Listed(UnclusteredPapers(shown), i) = {}
                 /\ getClusterColor(shown[i].cluster_id) # NoiseColor

\* A paper without cluster_id and a paper of cluster 0 are listed, cluster 0
\* among the clusters.
C14_Witness ==
    /\ rawPapers = <<None, Some(0)>>
    /\ rawClusters = <<0, 1>>
    /\ UnclusteredSectionShown(PanelPapers(rawPapers))
    /\ ClusterSectionShown(PanelPapers(rawPapers), rawClusters, 1)

C19_Mounted == panelOp.op = "mount" => expandedClusters = Range(rawClusters)

C19_PanelStep ==
    /\ rawClusters' # rawClusters => expandedClusters' = Range(rawClusters')
    /\ panelOp'.op = "papers" => expandedClusters' = expandedClusters
    /\ panelOp'.op = "toggle" =>
          LET c == panelOp'.cluster
          IN  /\ c \in expandedClusters' <=> c \notin expandedClusters
              /\ \A d \in (expandedClusters \cup expandedClusters') \ {c} :
                    (d \in expandedClusters' <=> d \in expandedClusters)
              /\ Toggled(expandedClusters', c) = expandedClusters

\* C19: after the first render and whenever the list of cluster ids changes
\* the expanded set is the set of the current cluster ids; toggleCluster(c)
\* flips the expansion of c only, and a second toggle of c restores the set.
C19_ExpandedByDefault == []C19_Mounted /\ [][C19_PanelStep]_vars

\* The Unclustered section was opened and a cluster section closed.
C19_Witness ==
    /\ panelOp.op = "toggle"
    /\ rawClusters = <<0, 1>>
    /\ expandedClusters = {NoiseClusterId, 1}

(***************************************************************************)
(* Claims about the timing breakdown                                       *)
(***************************************************************************)

\* The milliseconds a displayed time stands for: "<n>ms", or "<a>.<bc>s".
ShownMs(text) ==
    IF Len(text) >= 3 /\ SubSeq(text, Len(text) - 1, Len(text)) = <<"m", "s">>
    THEN ParseInt(SubSeq(text, 1, Len(text) - 2))
    ELSE 1000 * ParseInt(SubSeq(text, 1, Len(text) - 4))
             + 10 * ParseInt(SubSeq(text, Len(text) - 2, Len(text) - 1))

\* A displayed time agrees with ms: exactly below one second, to the
\* hundredth of a second from there on.
ShowsMs(text, ms) ==
    IF ms < 1000 THEN ShownMs(text) = ms
    ELSE ShownMs(text) - ms <= 5 /\ ms - ShownMs(text) <= 5

StageIndex(label) == CHOOSE i \in DOMAIN StageLabels : StageLabels[i] = label

\* C15: a stage whose duration is null or absent has no row; every stage with
\* a duration has exactly one row, the rows follow the order Embedding,
\* Retrieval, Reranking, Generation, Faithfulness, each shows the duration of
\* its own stage, and the total shown is total_time_ms as received.
C15_BreakdownListsTimedStages ==
    viewOut # None =>
        LET trace == Val(viewIn)
            rows == Val(viewOut).rows
        IN  /\ \A i \in 1..5 :
                  Cardinality({k \in DOMAIN rows : rows[k].label = StageLabels[i]})
                      = IF trace.stages[i] \in {JsNull, JsUndefined} THEN 0 ELSE 1
            /\ \A k \in DOMAIN rows : rows[k].label \in Range(StageLabels)
            /\ \A k, l \in DOMAIN rows :
                  k < l => StageIndex(rows[k].label) < StageIndex(rows[l].label)
            /\ \A k \in DOMAIN rows :
                  /\ rows[k].value = trace.stages[StageIndex(rows[k].label)]
                  /\ ShowsMs(rows[k].text, trace.stages[StageIndex(rows[k].label)].value)
            /\ ShowsMs(Val(viewOut).total, trace.total_time_ms)

\* Reranking was skipped (null), retrieval is absent, the other stages are
\* timed, and their durations do not add up to the total.
C15_Witness ==
    /\ viewOut # None
    /\ Val(viewIn).stages = <<JsNumber(0), JsUndefined, JsNull, JsNumber(1504), JsNumber(1504)>>
    /\ Val(viewIn).total_time_ms = 5350
    /\ Len(Val(viewOut).rows) = 3
    /\ Val(viewOut).total = <<"5", ".", "3", "5", "s">>

(***************************************************************************)
(* Claims about failed requests                                            *)
(***************************************************************************)

\* The texts the body of an error response carries in message or detail.
CarriedTexts(body) ==
    IF ~body.json THEN {}
    ELSE {Val(o) : o \in {p \in {body.message, body.detail} : p # None /\ Val(p) # <<>>}}

\* C16: for every response whose status is not 2xx and whose JSON body carries
\* a message or detail text, customFetch throws an APIError with that status
\* and returns no data, and the page shows "Request Failed" with that text,
\* never "Connection Error".
C16_ServerTextShown ==
    (/\ viewOut # None
     /\ Val(viewIn).reached
     /\ ~ResponseOk(Val(Val(viewIn).status))
     /\ CarriedTexts(Val(viewIn).body) # {})
        => /\ Val(viewOut).result.kind = "throw"
           /\ Val(viewOut).result.name = "APIError"
           /\ Val(viewOut).result.status = Val(viewIn).status
           /\ Val(viewOut).alert # None
           /\ Val(Val(viewOut).alert).title = "Request Failed"
           /\ Val(Val(viewOut).alert).text \in CarriedTexts(Val(viewIn).body)

(***************************************************************************)
(* Claims about "Try Again"                                                *)
(***************************************************************************)

\* "Try Again" is clicked: the mutation leaves its error for the idle state.
C17_TryAgainStep ==
    (mutStatus = "error" /\ mutStatus' = "idle")
        => /\ ~ErrorShown'
           /\ mutateCount' = mutateCount
           /\ inflight' = inflight
           /\ inflight' = {}

\* A request is sent by a submit only: through the enabled Ask button, with
\* the question of the form, and the mutation becomes pending.
C17_RequestStep ==
    (mutateCount' # mutateCount \/ ~(inflight' \subseteq inflight))
        => /\ ~AskDisabled
           /\ mutStatus' = "pending"
           /\ mutVars' = Some([question |-> Trim(question), top_k |-> topK,
                               enable_reranking |-> enableReranking])
           /\ inflight' = inflight \cup {[id |-> mutateCount', data |-> Val(mutVars')]}

\* The request submitted last is answered with the status whose data is
\* stored: its answer is displayed and no error is.
C17_AnswerStep ==
    (mutStatus = "pending" /\ mutStatus' = "success" /\ response' # response)
        => /\ ResultsShown'
           /\ Val(response').request = mutateCount
           /\ ~ErrorShown'

\* C17: "Try Again" clears the displayed error and makes the mutation idle
\* without sending a request; no request is sent until the next submit; and a
\* submit is eventually answered, a successful answer being displayed with no
\* error shown.
C17_TryAgainThenSubmit ==
    /\ [][C17_TryAgainStep]_vars
    /\ [][C17_RequestStep]_vars
    /\ [][C17_AnswerStep]_vars
    /\ [](mutStatus = "idle" => inflight = {})
    /\ (mutStatus = "pending") ~> (mutStatus # "pending")

\* A query failed, "Try Again" was clicked, and the Ask button is enabled for
\* the next submit: only "Try Again" makes the mutation idle again.
C17_Witness ==
    /\ mutStatus = "idle"
    /\ mutateCount = 1
    /\ inflight = {}
    /\ mutVars = None
    /\ ~AskDisabled

(***************************************************************************)
(* Claims about EvaluateButton                                             *)
(***************************************************************************)

RECURSIVE UrlDecode(_)
UrlDecode(s) ==
    IF s = <<>> THEN <<>>
    ELSE IF Len(s) >= 3 /\ SubSeq(s, 1, 3) = <<"%", "2", "F">>
    THEN <<"/">> \o UrlDecode(SubSeq(s, 4, Len(s)))
    ELSE <<Head(s)>> \o UrlDecode(Tail(s))

\* The pathname is /admin followed by anything.
IsAdminPath(pathname) ==
    \E rest \in 0..Len(pathname) :
        pathname = <<"/", "a", "d", "m", "i", "n">> \o SubSeq(pathname, Len(pathname) - rest + 1, Len(pathname))

\* C20: a request whose pathname starts with /admin and that has no
\* access_token cookie is redirected to /login of the same origin with the one
\* query parameter redirect, whose value is the requested pathname; every
\* other request passes through.
C20_AdminNeedsToken ==
    viewOut # None =>
        LET request == Val(viewIn)
            result == Val(viewOut)
        IN  IF IsAdminPath(request.pathname) /\ request.access_token = None
            THEN /\ result.kind = "redirect"
                 /\ Val(result.url).origin = request.origin
                 /\ Val(result.url).pathname = <<"/", "l", "o", "g", "i", "n">>
                 /\ LET search == Val(result.url).search
                    IN  /\ SubSeq(search, 1, 10)
                              = <<"?", "r", "e", "d", "i", "r", "e", "c", "t", "=">>
                        /\ UrlDecode(SubSeq(search, 11, Len(search))) = request.pathname
            ELSE /\ result.kind = "next"
                 /\ result.url = None

\* /admin/papers is requested without the cookie, with a query string and
\* another cookie, and the request is redirected.
C20_Witness ==
    /\ viewOut # None
    /\ Val(viewIn).pathname
           = <<"/", "a", "d", "m", "i", "n", "/", "p", "a", "p", "e", "r", "s">>
    /\ Val(viewIn).access_token = None
    /\ Val(viewIn).other_cookie
    /\ Val(viewIn).search # <<>>
    /\ Val(viewOut).kind = "redirect"

(***************************************************************************)
(* Claims about the rendered answer                                        *)
(***************************************************************************)

\* The text is a marker: "[", one or more decimal digits, "]".
IsMarkerText(text) ==
    /\ Len(text) >= 3
    /\ text[1] = "["
    /\ text[Len(text)] = "]"
    /\ AllDigits(SubSeq(text, 2, Len(text) - 1))

MarkerNumber(text) == ParseInt(SubSeq(text, 2, Len(text) - 1))

RECURSIVE ConcatTexts(_)
ConcatTexts(parts) ==
    IF parts = <<>> THEN <<>> ELSE Head(parts).text \o ConcatTexts(Tail(parts))

\* C21: a part of the rendered answer is a citation badge exactly when it is a
\* marker [n] with 1 <= n <= len(citations), its citation then being the n-th;
\* every other part, the markers [0] and [n] with n > len(citations) included,
\* is plain text, and the texts of the parts in order are the answer.
C21_BadgeIffCitationExists ==
    ResultsShown =>
        LET answer == Val(response).data.answer
            citations == Val(response).data.citations
            parts == RenderedParts(answer, citations)
        IN  /\ \A i \in DOMAIN parts :
                  /\ parts[i].kind \in {"badge", "span"}
                  /\ parts[i].kind = "badge"
                        <=> /\ IsMarkerText(parts[i].text)
                            /\ MarkerNumber(parts[i].text) >= 1
                            /\ MarkerNumber(parts[i].text) <= Len(citations)
                  /\ parts[i].kind = "badge"
                        => parts[i].citation = Some(citations[MarkerNumber(parts[i].text)])
            /\ ConcatTexts(parts) = answer

\* The answer "[0][1][02]" with two citations is on display: [0] is plain
\* text, [1] and [02] are the badges of the first and the second citation.
C21_Witness ==
    /\ ResultsShown
    /\ Val(response).data.answer = <<"[", "0", "]", "[", "1", "]", "[", "0", "2", "]">>
    /\ Len(Val(response).data.citations) = 2
    /\ LET parts == RenderedParts(Val(response).data.answer, Val(response).data.citations)
       IN  /\ \E i \in DOMAIN parts : parts[i].text = <<"[", "0", "]">> /\ parts[i].kind = "span"
           /\ \E i \in DOMAIN parts : parts[i].text = <<"[", "1", "]">> /\ parts[i].kind = "badge"
           /\ \E i \in DOMAIN parts :
                 parts[i].text = <<"[", "0", "2", "]">> /\ parts[i].kind = "badge"

(***************************************************************************)
(* Claims about the filtered search                                        *)
(***************************************************************************)

C23_OpeningStep ==
    (~evOpen /\ evOpen') => (evCount' = evCount + 1 /\ evStatus' = "pending")

\* The metrics on display are those of the request sent last.
C23_MetricsOfLastRequest == (evOpen /\ MetricsShown) => evResult = Some(evCount)

\* C23: whenever the dialog is opened through the Evaluate button a new
\* evaluation request is sent for that opening, and the metrics shown are those
\* of that request, also when the dialog was closed while an earlier evaluation
\* was pending and that evaluation completed afterwards.
C23_FreshEvaluationPerOpening ==
    [][C23_OpeningStep]_vars /\ []C23_MetricsOfLastRequest

(***************************************************************************)
(* Claims about the stored response                                        *)
(***************************************************************************)

\* The stored response changes only in a step in which a request in flight is
\* answered and the mutation succeeds, and it is then the answer to that
\* request; a step that leaves the mutation failed, pending or idle changes nothing.
C24_ResponseStep ==
    /\ response' # response =>
          /\ response' # None
          /\ mutStatus' = "success"
          /\ \E req \in inflight :
                /\ req \notin inflight'
                /\ Val(response').request = req.id
          /\ Val(response').data \in ResponseBodies
    /\ mutStatus' \in {"error", "pending", "idle"} => response' = response

\* C24: the stored response changes only when a query succeeds, and becomes the
\* data of that answer; a failed query, a query in progress and "Try Again"
\* leave it as it was, and it is rendered whenever it is set and no query is
\* pending.
C24_ResponseKeptOnFailure ==
    /\ [][C24_ResponseStep]_vars
    /\ [](ResultsShown <=> (response # None /\ mutStatus # "pending"))

\* A query succeeded and the next one failed: the error is shown and the
\* results of the earlier query are still stored and rendered.
C24_Witness ==
    /\ mutStatus = "error"
    /\ response # None
    /\ Val(response).request < mutateCount
    /\ ResultsShown

(***************************************************************************)
(* Claims about the highlighted chunk                                      *)
(***************************************************************************)

RetrievedIds(data) == {data.retrieved_chunks[i].chunk_id : i \in DOMAIN data.retrieved_chunks}

\* Every chunk id of every citation of the response is one of its retrieved chunks.
CitesRetrievedOnly(data) ==
    \A i \in DOMAIN data.citations :
        \A j \in DOMAIN data.citations[i].chunk_ids :
            data.citations[i].chunk_ids[j] \in RetrievedIds(data)

\* C25: whenever highlightedChunkId is set, it is the id of one of the
\* retrieved chunks of the response on display (stated for responses whose
\* citations name retrieved chunks only).
C25_HighlightInDisplayedResponse ==
    (highlightedChunkId # None /\ ResultsShown /\ CitesRetrievedOnly(Val(response).data))
        => Val(highlightedChunkId) \in RetrievedIds(Val(response).data)

(***************************************************************************)
(* Claims about the sections of PapersPanel                                *)
(***************************************************************************)

\* The places where paper id is listed: <<j, k>> for entry k of the section of
\* the cluster at position j, <<0, k>> for entry k of Unclustered.
ListingsOf(shown, clusters, id) ==
    {<<0, k>> : k \in Listed(UnclusteredPapers(shown), id)}
        \cup UNION {{<<j, k>> : k \in Listed(PapersByCluster(shown, clusters[j]), id)} :
                       j \in DOMAIN clusters}

\* C26: every paper handed to PapersPanel is listed in exactly one section,
\* the one of the cluster with its cluster_id or Unclustered, for every
\* combination of papers and clusters.
C26_EveryPaperInOneSection ==
    LET shown == PanelPapers(rawPapers)
    IN  \A i \in DOMAIN shown :
           /\ Cardinality(ListingsOf(shown, rawClusters, i)) = 1
           /\ \A l \in ListingsOf(shown, rawClusters, i) :
                 IF l[1] = 0 THEN shown[i].cluster_id < 0
                 ELSE rawClusters[l[1]] = shown[i].cluster_id

(***************************************************************************)
(* Claims about useAuth and AdminLayout                                    *)
(***************************************************************************)

\* C27: AdminLayout renders the admin children only in states where isLoading
\* is false and user is not null, never while no authenticated user is known.
C27_ChildrenNeedUser == ChildrenRendered => (~authLoading /\ authUser # None)

\* Once the operation started last has finished, user is what it left.
C28_LatestWins == authLatest.done => authUser = authLatest.user

C28_AuthStep ==
    authReqs' # authReqs =>
        /\ authEvent'.name \in {"me_user", "me_other", "me_failed"} => ~authLoading'
        /\ authEvent'.name = "logout_failed" => (authUser' = authUser /\ authNav' = authNav)

\* C28: user reflects the auth operation started last: a checkAuth that
\* settles after a later operation has finished never overwrites what that
\* operation left; isLoading is false once a checkAuth has settled; a failed
\* logout leaves user unchanged and does not navigate.
C28_LatestOperationWins == []C28_LatestWins /\ [][C28_AuthStep]_vars

(***************************************************************************)
(* Claims about "Ask about this paper"                                     *)
(***************************************************************************)

\* What is the main contribution of "<title>"?
ContributionQuestion(title) ==
    <<"W", "h", "a", "t", " ", "i", "s", " ", "t", "h", "e", " ", "m", "a", "i", "n", " ",
      "c", "o", "n", "t", "r", "i", "b", "u", "t", "i", "o", "n", " ", "o", "f", " ", "\"">>
        \o title \o <<"\"", "?">>

C29_AskStep ==
    askCount' # askCount => question' = ContributionQuestion(Val(askedTitle'))

C29_SubmitStep ==
    mutateCount' # mutateCount => (prefilledQuestion' = None /\ question' = question)

\* C29: after every click on "Ask about this paper" of a paper the question
\* field holds 'What is the main contribution of "<title>"?', whatever was
\* typed or clicked before; a submit clears the pending prefill and leaves the
\* typed text as it is.
C29_AskFillsQuestion == [][C29_AskStep /\ C29_SubmitStep]_vars

====
